---- MODULE Spec2Model ----
(***************************************************************************)
(* A model of the anymock WebSocket mock server: the matcher scores        *)
(* (src/src/matchers.rs), the stubs, their registry and the lookup         *)
(* (src/src/ws/stubs.rs) and the per-connection session loop               *)
(* (src/src/ws/mod.rs).                                                    *)
(*                                                                         *)
(* Conventions.  Option<T> is a sequence of length 0 (None) or 1 (Some).   *)
(* A String or a Vec<u8> is a sequence of one-character strings.  A        *)
(* HashMap is a function on its key set.  A Duration and an Instant are    *)
(* integers counted in ticks, TicksPerMilli ticks to the millisecond.      *)
(***************************************************************************)
EXTENDS Integers, Sequences, FiniteSets, TLC

(***************************************************************************)
(* Bounds of the model and constants of the program.                       *)
(***************************************************************************)
MaxEvents == 5         \* registrations, client writes, network events and clock ticks
MaxStubs == 3          \* stubs the registry holds, all kinds together
MaxHandles == 2        \* ServerHandle values alive at once
TicksPerMilli == 2     \* resolution of the clock: ticks in one millisecond
InstantMax == 100000   \* the last Instant the platform can represent
READ_TIMEOUT_MS == 1000
U16 == 65536

None == <<>>
Some(v) == <<v>>
IsSome(o) == Len(o) = 1
Unwrap(o) == o[1]

EmptyMap == <<>>
Get(map, k) == IF k \in DOMAIN map THEN Some(map[k]) ELSE None

\* the larger of the two in place of their sum
U16Add_Max(a, b) == IF a > b THEN a ELSE b

U16Add(a, b) == (a + b) % U16

(***************************************************************************)
(* Strings.                                                                *)
(***************************************************************************)
StrContains(v, part) ==
    \E i \in 0..(Len(v) - Len(part)) : SubSeq(v, i + 1, i + Len(part)) = part

\* A compiled Regex: a literal with optional ^ and $ anchors; is_match
\* searches the whole haystack, as regex::Regex::is_match does.
RegexIsMatch(re, v) ==
    \E i \in 0..(Len(v) - Len(re.lit)) :
        /\ SubSeq(v, i + 1, i + Len(re.lit)) = re.lit
        /\ re.start => i = 0
        /\ re.end => i + Len(re.lit) = Len(v)

(***************************************************************************)
(* User scoring functions (the Fn variants): a closure is named, and       *)
(* UserFn applies it to the optional value.                                *)
(***************************************************************************)
UserFn(f, value) ==
    CASE f = "absent1" -> (IF IsSome(value) THEN 0 ELSE 1)
      [] f = "present5" -> (IF IsSome(value) THEN 5 ELSE 0)
      [] f = "always9" -> 9
      [] f = "huge" -> 40000
      [] f = "half" -> 32768
      [] f = "max" -> 65535
      [] OTHER -> 0

(***************************************************************************)
(* Scalar matchers: score(Option<&T>) -> u16.                              *)
(***************************************************************************)
TextMatcher_score(m, value) ==
    CASE m.kind = "Eq" /\ IsSome(value) /\ Unwrap(value) = m.part -> 8
      [] m.kind = "Regex" /\ IsSome(value) /\ RegexIsMatch(m.re, Unwrap(value)) -> 7
      [] m.kind = "Contains" /\ IsSome(value) /\ StrContains(Unwrap(value), m.part) -> 6
      [] m.kind = "NotContains" /\ IsSome(value) /\ ~StrContains(Unwrap(value), m.part) -> 5
      [] m.kind = "LenEq" /\ IsSome(value) /\ Len(Unwrap(value)) = m.len -> 4
      [] m.kind = "LenGreaterThan" /\ IsSome(value) /\ Len(Unwrap(value)) > m.len -> 3
      [] m.kind = "LenLessThan" /\ IsSome(value) /\ Len(Unwrap(value)) < m.len -> 3
      [] m.kind = "None" /\ ~IsSome(value) -> 2
      [] m.kind = "Any" /\ IsSome(value) -> 1
      [] m.kind = "Fn" -> UserFn(m.f, value)
      [] OTHER -> 0

\* Contains: part.len() <= v.len() && v.windows(part.len()).any(..); called
\* where BinaryMatcher_score_panics is false.
BinaryMatcher_score(m, value) ==
    CASE m.kind = "Eq" /\ IsSome(value) /\ Unwrap(value) = m.part -> 4
      [] m.kind = "Contains" /\ IsSome(value) /\ Len(m.part) <= Len(Unwrap(value))
            /\ StrContains(Unwrap(value), m.part) -> 3
      [] m.kind = "None" /\ ~IsSome(value) -> 2
      [] m.kind = "Any" /\ IsSome(value) -> 1
      [] m.kind = "Fn" -> UserFn(m.f, value)
      [] OTHER -> 0

\* v.windows(part.len()) panics on a window of size 0: Contains of the empty
\* part, on any present value (part.len() <= v.len() holds)
BinaryMatcher_score_panics(m, value) ==
    m.kind = "Contains" /\ IsSome(value) /\ Len(m.part) = 0

IntMatcher_score(m, value) ==
    CASE m.kind = "Eq" /\ IsSome(value) /\ Unwrap(value) = m.n -> 4
      [] m.kind = "LessThan" /\ IsSome(value) /\ Unwrap(value) < m.n -> 3
      [] m.kind = "GreaterThan" /\ IsSome(value) /\ Unwrap(value) > m.n -> 3
      [] m.kind = "None" /\ ~IsSome(value) -> 2
      [] m.kind = "Any" /\ IsSome(value) -> 1
      [] m.kind = "Fn" -> UserFn(m.f, value)
      [] OTHER -> 0

BoolMatcher_score(m, value) ==
    CASE m.kind = "Eq" /\ IsSome(value) /\ Unwrap(value) = m.b -> 3
      [] m.kind = "None" /\ ~IsSome(value) -> 2
      [] m.kind = "Any" /\ IsSome(value) -> 1
      [] OTHER -> 0

FloatMatcher_score(m, value) ==
    CASE m.kind = "Eq" /\ IsSome(value) /\ Unwrap(value) = m.n -> 4
      [] m.kind = "LessThan" /\ IsSome(value) /\ Unwrap(value) < m.n -> 3
      [] m.kind = "GreaterThan" /\ IsSome(value) /\ Unwrap(value) > m.n -> 3
      [] m.kind = "None" /\ ~IsSome(value) -> 2
      [] m.kind = "Any" /\ IsSome(value) -> 1
      [] m.kind = "Fn" -> UserFn(m.f, value)
      [] OTHER -> 0

(***************************************************************************)
(* JsonValue is [j |-> variant, v |-> content]; a Float holds its value    *)
(* scaled to an integer.  JsonMatcher is [kind |-> variant, m |-> ...].    *)
(***************************************************************************)
Min(a, b) == IF a <= b THEN a ELSE b

RECURSIVE JsonMatcher_score(_, _)
RECURSIVE JsonList_score(_, _, _, _)
RECURSIVE JsonObject_score(_, _, _, _)

\* for (m, item) in matchers.iter().zip(list.iter()), from pair i on
JsonList_score(matchers, list, i, total_score) ==
    IF i > Min(Len(matchers), Len(list)) THEN total_score
    ELSE LET score == JsonMatcher_score(matchers[i], Some(list[i]))
         IN IF score = 0 THEN 0
            ELSE JsonList_score(matchers, list, i + 1, U16Add(total_score, score))

\* for (k, matcher) in matchers, over the keys not yet visited
JsonObject_score(matchers, map, keys, total_score) ==
    IF keys = {} THEN total_score
    ELSE LET k == CHOOSE x \in keys : TRUE
             score == JsonMatcher_score(matchers[k], Get(map, k))
         IN IF score = 0 THEN 0
            ELSE JsonObject_score(matchers, map, keys \ {k}, U16Add(total_score, score))

\* The match has no arm for JsonMatcher::Fn, nor for an absent value:
\* both end in the final (_, _) => 0.
JsonMatcher_score(m, value) ==
    IF ~IsSome(value) THEN 0
    ELSE LET json == Unwrap(value) IN
      CASE json.j = "Null" /\ m.kind = "Null" -> 1
        [] json.j = "Bool" /\ m.kind = "Bool" -> BoolMatcher_score(m.m, Some(json.v))
        [] json.j = "Str" /\ m.kind = "Str" -> TextMatcher_score(m.m, Some(json.v))
        [] json.j = "Float" /\ m.kind = "Float" -> FloatMatcher_score(m.m, Some(json.v))
        [] json.j = "Int" /\ m.kind = "Int" -> IntMatcher_score(m.m, Some(json.v))
        [] json.j = "List" /\ m.kind = "List" -> JsonList_score(m.m, json.v, 1, 0)
        [] json.j = "Object" /\ m.kind = "Object" ->
              JsonObject_score(m.m, json.v, DOMAIN m.m, 0)
        [] OTHER -> 0

\* impl From<JsonValue> for JsonMatcher: the matcher of with_json_body_eq
RECURSIVE JsonMatcher_from(_)
JsonMatcher_from(value) ==
    CASE value.j = "Null" -> [kind |-> "Null"]
      [] value.j = "Bool" -> [kind |-> "Bool", m |-> [kind |-> "Eq", b |-> value.v]]
      [] value.j = "Str" -> [kind |-> "Str", m |-> [kind |-> "Eq", part |-> value.v]]
      [] value.j = "Float" -> [kind |-> "Float", m |-> [kind |-> "Eq", n |-> value.v]]
      [] value.j = "Int" -> [kind |-> "Int", m |-> [kind |-> "Eq", n |-> value.v]]
      [] value.j = "List" ->
            [kind |-> "List", m |-> [i \in 1..Len(value.v) |-> JsonMatcher_from(value.v[i])]]
      [] value.j = "Object" ->
            [kind |-> "Object", m |-> [k \in DOMAIN value.v |-> JsonMatcher_from(value.v[k])]]

(***************************************************************************)
(* Body is [t |-> "Json" | "Binary" | "PlainText", v |-> content];         *)
(* BodyMatcher is [t |-> the same, m |-> the matcher of that kind].        *)
(***************************************************************************)
\* BodyMatcher::score that hands an absent body to the matcher as None
BodyMatcher_score_AbsentToMatcher(bm, body) ==
    IF ~IsSome(body)
    THEN CASE bm.t = "Json" -> JsonMatcher_score(bm.m, None)
           [] bm.t = "PlainText" -> TextMatcher_score(bm.m, None)
           [] bm.t = "Binary" -> BinaryMatcher_score(bm.m, None)
    ELSE LET b == Unwrap(body) IN
      CASE b.t = "Json" /\ bm.t = "Json" -> JsonMatcher_score(bm.m, Some(b.v))
        [] b.t = "PlainText" /\ bm.t = "PlainText" -> TextMatcher_score(bm.m, Some(b.v))
        [] b.t = "Binary" /\ bm.t = "Binary" -> BinaryMatcher_score(bm.m, Some(b.v))
        [] OTHER -> 0

BodyMatcher_score(bm, body) ==
    IF ~IsSome(body) THEN 0
    ELSE LET b == Unwrap(body) IN
      CASE b.t = "Json" /\ bm.t = "Json" -> JsonMatcher_score(bm.m, Some(b.v))
        [] b.t = "PlainText" /\ bm.t = "PlainText" -> TextMatcher_score(bm.m, Some(b.v))
        [] b.t = "Binary" /\ bm.t = "Binary" -> BinaryMatcher_score(bm.m, Some(b.v))
        [] OTHER -> 0

(***************************************************************************)
(* Stubs (src/src/ws/stubs.rs).                                            *)
(*   Connect    [kind, headers, response]                                  *)
(*   Message    [kind, headers, payload, delay, response]                  *)
(*   Periodical [kind, id, headers, delay, responses]                      *)
(* headers is Option<HashMap<String, TextMatcher>>, payload is             *)
(* Option<BodyMatcher>, delay is [d |-> "Fixed", dur] or                   *)
(* [d |-> "Interval", from, to].                                           *)
(***************************************************************************)
RECURSIVE Headers_score(_, _, _, _)

\* Headers_score without the `return 0`: a failed matcher is skipped
Headers_score_SkipsFailed(header_matchers, session_headers, keys, score) ==
    IF keys = {} THEN Some(score)
    ELSE LET k == CHOOSE x \in keys : TRUE
             header_score == TextMatcher_score(header_matchers[k], Get(session_headers, k))
         IN Headers_score(header_matchers, session_headers, keys \ {k},
                          U16Add(score, header_score))

\* for (k, matcher) in header_matchers.iter(): None stands for `return 0`
Headers_score(header_matchers, session_headers, keys, score) ==
    IF keys = {} THEN Some(score)
    ELSE LET k == CHOOSE x \in keys : TRUE
             header_score == TextMatcher_score(header_matchers[k], Get(session_headers, k))
         IN IF header_score # 0
            THEN Headers_score(header_matchers, session_headers, keys \ {k},
                               U16Add(score, header_score))
            ELSE None

HeaderPart_score(headers, session_headers) ==
    IF IsSome(headers)
    THEN Headers_score(Unwrap(headers), session_headers, DOMAIN Unwrap(headers), 1)
    ELSE Some(1)

\* is_message_available with invocation <= responses.len()
Stub_is_message_available_Inclusive(stub, invocations) ==
    ~IsSome(Get(invocations, stub.id))
        \/ Unwrap(Get(invocations, stub.id)) <= Len(stub.responses)

\* invocations: the calling thread's PERIODICALLY_STUBS_INVOCATION_COUNT
Stub_is_message_available(stub, invocations) ==
    ~IsSome(Get(invocations, stub.id))
        \/ Unwrap(Get(invocations, stub.id)) < Len(stub.responses)

Stub_score(stub, payload, session_headers, invocations) ==
    LET hs == HeaderPart_score(stub.headers, session_headers) IN
    IF ~IsSome(hs) THEN 0
    ELSE CASE stub.kind = "Connect" -> Unwrap(hs)
           [] stub.kind = "Message" ->
                IF IsSome(stub.payload)
                THEN LET payload_score == BodyMatcher_score(Unwrap(stub.payload), payload)
                     IN IF payload_score = 0 THEN 0
                        ELSE U16Add(Unwrap(hs), payload_score)
                ELSE Unwrap(hs)
           [] stub.kind = "Periodical" ->
                IF ~Stub_is_message_available(stub, invocations) THEN 0
                ELSE Unwrap(hs)

\* The additions of the scores are `+=` on u16: where the exact sum passes
\* u16::MAX a build with overflow checks panics and one without them wraps
\* (U16Add).  SumScores is the exact sum of the scores in a map.
RECURSIVE SumScores(_, _)
SumScores(scores, keys) ==
    IF keys = {} THEN 0
    ELSE LET k == CHOOSE x \in keys : TRUE
         IN scores[k] + SumScores(scores, keys \ {k})

\* the scores of the header matchers of the stub, by header name
HeaderScores(stub, session_headers) ==
    IF IsSome(stub.headers)
    THEN [k \in DOMAIN Unwrap(stub.headers) |->
            TextMatcher_score(Unwrap(stub.headers)[k], Get(session_headers, k))]
    ELSE EmptyMap

\* total_score += score of JsonMatcher::score for a List passes u16::MAX
JsonList_score_overflows(matchers, list) ==
    LET n == Min(Len(matchers), Len(list))
        scores == [i \in 1..n |-> JsonMatcher_score(matchers[i], Some(list[i]))]
    IN /\ \A i \in 1..n : scores[i] # 0
       /\ SumScores(scores, 1..n) >= U16

\* an addition of Stub::score, or of the List payload matcher it calls,
\* passes u16::MAX
Stub_score_overflows(stub, payload, session_headers) ==
    LET scores == HeaderScores(stub, session_headers)
        headers_sum == 1 + SumScores(scores, DOMAIN scores)
        has_payload == stub.kind = "Message" /\ IsSome(stub.payload)
    IN /\ \A k \in DOMAIN scores : scores[k] # 0
       /\ \/ headers_sum >= U16
          \/ /\ has_payload
             /\ IsSome(payload)
             /\ Unwrap(stub.payload).t = "Json"
             /\ Unwrap(payload).t = "Json"
             /\ Unwrap(stub.payload).m.kind = "List"
             /\ Unwrap(payload).v.j = "List"
             /\ JsonList_score_overflows(Unwrap(stub.payload).m.m, Unwrap(payload).v.v)
          \/ /\ has_payload
             /\ headers_sum + BodyMatcher_score(Unwrap(stub.payload), payload) >= U16

(***************************************************************************)
(* StubsHandle::get_message: the scan that keeps the best stub so far.     *)
(* current_stub is <<index of the stub or 0, its score>>.                  *)
(***************************************************************************)
RECURSIVE BestStub(_, _, _, _, _, _)

\* BestStub that keeps the first stub that scores above 0
BestStub_FirstMatch(stubs, payload, headers, invocations, i, current_stub) ==
    IF i > Len(stubs) THEN current_stub
    ELSE LET score == Stub_score(stubs[i], payload, headers, invocations)
         IN BestStub(stubs, payload, headers, invocations, i + 1,
                     IF score > 0 /\ current_stub[1] = 0 THEN <<i, score>>
                     ELSE current_stub)

\* BestStub over all but the stub registered last
BestStub_SkipsLast(stubs, payload, headers, invocations, i, current_stub) ==
    IF i >= Len(stubs) THEN current_stub
    ELSE LET score == Stub_score(stubs[i], payload, headers, invocations)
         IN BestStub(stubs, payload, headers, invocations, i + 1,
                     IF score > current_stub[2] THEN <<i, score>> ELSE current_stub)

\* BestStub with score >= current_stub.1: the last of the best stubs wins
BestStub_LastWins(stubs, payload, headers, invocations, i, current_stub) ==
    IF i > Len(stubs) THEN current_stub
    ELSE LET score == Stub_score(stubs[i], payload, headers, invocations)
         IN BestStub(stubs, payload, headers, invocations, i + 1,
                     IF score >= current_stub[2] THEN <<i, score>> ELSE current_stub)

BestStub(stubs, payload, headers, invocations, i, current_stub) ==
    IF i > Len(stubs) THEN current_stub
    ELSE LET score == Stub_score(stubs[i], payload, headers, invocations)
         IN BestStub(stubs, payload, headers, invocations, i + 1,
                     IF score > current_stub[2] THEN <<i, score>> ELSE current_stub)

\* the index of the stub get_message materializes, 0 for None
SelectedStub(stubs, payload, headers, invocations) ==
    BestStub(stubs, payload, headers, invocations, 1, <<0, 0>>)[1]

(***************************************************************************)
(* Stub::message.                                                          *)
(***************************************************************************)
Duration_from_millis(ms) == ms * TicksPerMilli
Duration_as_millis(d) == d \div TicksPerMilli

\* Instant::now().checked_add(delay).unwrap_or_else(Instant::now)
AvailableAt(now, delay) == IF now + delay <= InstantMax THEN now + delay ELSE now

\* The durations a delay can yield.  Interval draws
\* random_range(from_as_millis..to_as_millis), which panics on an empty
\* range: the empty set stands for the panic.
DelayChoices(stub) ==
    CASE stub.kind = "Connect" -> {0}
      [] stub.delay.d = "Fixed" -> {stub.delay.dur}
      [] stub.delay.d = "Interval" ->
            {Duration_from_millis(x) :
                x \in Duration_as_millis(stub.delay.from)
                        ..(Duration_as_millis(stub.delay.to) - 1)}

\* message_idx: the cursor read (and then advanced) for a Periodical stub
Stub_message_idx(stub, invocations) ==
    IF IsSome(Get(invocations, stub.id)) THEN Unwrap(Get(invocations, stub.id)) ELSE 0

\* responses.get(message_idx) for a Periodical, the response otherwise
Stub_response_get(stub, invocations) ==
    IF stub.kind = "Periodical"
    THEN IF Stub_message_idx(stub, invocations) < Len(stub.responses)
         THEN Some(stub.responses[Stub_message_idx(stub, invocations) + 1])
         ELSE None
    ELSE Some(stub.response)

\* .expect("Always should exist message")
Stub_response(stub, invocations) == Unwrap(Stub_response_get(stub, invocations))

\* *current_idx += 1 on the entry of the stub's id
InvocationsAfter(stub, invocations) ==
    IF stub.kind = "Periodical"
    THEN [k \in DOMAIN invocations \cup {stub.id} |->
            IF k = stub.id THEN Stub_message_idx(stub, invocations) + 1
            ELSE invocations[k]]
    ELSE invocations

(***************************************************************************)
(* Msg(Message, Instant) and its ordering.  A Msg is [msg, at, g]: the     *)
(* frame, available_at, and g, a record kept for the properties only (the  *)
(* kind and the delay of the stub, and the instant of materialization).    *)
(* cmp answers Less when self.1 >= other.1 and Greater otherwise, so       *)
(* a <= b holds exactly when a is not available before b.                  *)
(***************************************************************************)
Msg_le_Reversed(a, b) == a.at <= b.at

Msg_le(a, b) == a.at >= b.at

(***************************************************************************)
(* BinaryHeap<Msg> as the Vec std keeps (positions from 0, data[pos + 1]   *)
(* in the sequence): push is sift_up(0, old_len), pop swaps the last item  *)
(* to the top and runs sift_down_to_bottom(0).                             *)
(***************************************************************************)
RECURSIVE SiftUp(_, _, _, _)
RECURSIVE HoleToBottom(_, _, _)

SiftUp(data, start, pos, elt) ==
    IF pos > start
    THEN LET parent == (pos - 1) \div 2 IN
         IF Msg_le(elt, data[parent + 1])
         THEN [data EXCEPT ![pos + 1] = elt]
         ELSE SiftUp([data EXCEPT ![pos + 1] = data[parent + 1]], start, parent, elt)
    ELSE [data EXCEPT ![pos + 1] = elt]

SaturatingSub(a, b) == IF a >= b THEN a - b ELSE 0

\* the loop of sift_down_to_bottom: <<data, position of the hole>>
HoleToBottom(data, hole, child) ==
    LET end == Len(data) IN
    IF child <= SaturatingSub(end, 2)
    THEN LET c == child + (IF Msg_le(data[child + 1], data[child + 2]) THEN 1 ELSE 0)
         IN HoleToBottom([data EXCEPT ![hole + 1] = data[c + 1]], c, 2 * c + 1)
    ELSE IF child = end - 1
         THEN <<[data EXCEPT ![hole + 1] = data[child + 1]], child>>
         ELSE <<data, hole>>

SiftDownToBottom(data, pos) ==
    LET elt == data[pos + 1]
        down == HoleToBottom(data, pos, 2 * pos + 1)
    IN SiftUp(down[1], pos, down[2], elt)

Heap_push(data, item) == SiftUp(Append(data, item), 0, Len(data), item)

Heap_peek(data) == IF data = <<>> THEN None ELSE Some(data[1])

\* the heap that pop leaves; the item popped is Heap_peek
Heap_pop(data) ==
    LET item == data[Len(data)]
        rest == SubSeq(data, 1, Len(data) - 1)
    IN IF rest = <<>> THEN rest
       ELSE SiftDownToBottom([rest EXCEPT ![1] = item], 0)

(***************************************************************************)
(* JSON text.  Value::to_string writes a value and serde_json::from_str    *)
(* reads one; the model reads the scalar documents (null, true, false,     *)
(* integers, strings without escapes) and writes scalars and lists.        *)
(***************************************************************************)
Digits == <<"0", "1", "2", "3", "4", "5", "6", "7", "8", "9">>
IsDigit(c) == \E i \in 1..Len(Digits) : Digits[i] = c
DigitValue(c) == (CHOOSE i \in 1..Len(Digits) : Digits[i] = c) - 1

RECURSIVE NatToText(_)
NatToText(n) ==
    IF n < 10 THEN <<Digits[n + 1]>> ELSE NatToText(n \div 10) \o <<Digits[(n % 10) + 1]>>

IntToText(n) == IF n < 0 THEN <<"-">> \o NatToText(-n) ELSE NatToText(n)

RECURSIVE TextToNat(_, _)
TextToNat(txt, acc) ==
    IF txt = <<>> THEN acc ELSE TextToNat(Tail(txt), acc * 10 + DigitValue(Head(txt)))

IsNatLiteral(txt) ==
    /\ Len(txt) >= 1
    /\ \A i \in 1..Len(txt) : IsDigit(txt[i])
    /\ Len(txt) > 1 => txt[1] # "0"

RECURSIVE Json_to_string(_)
RECURSIVE JsonItems_to_string(_, _)

JsonItems_to_string(list, i) ==
    IF i > Len(list) THEN <<>>
    ELSE (IF i > 1 THEN <<",">> ELSE <<>>) \o Json_to_string(list[i])
            \o JsonItems_to_string(list, i + 1)

Json_to_string(json) ==
    CASE json.j = "Null" -> <<"n", "u", "l", "l">>
      [] json.j = "Bool" ->
            (IF json.v THEN <<"t", "r", "u", "e">> ELSE <<"f", "a", "l", "s", "e">>)
      [] json.j = "Str" -> <<"\"">> \o json.v \o <<"\"">>
      [] json.j = "Int" -> IntToText(json.v)
      [] json.j = "List" -> <<"[">> \o JsonItems_to_string(json.v, 1) \o <<"]">>

(***************************************************************************)
(* serde_json::from_str followed by JsonValue::from(Value): a document is  *)
(* one value between optional spaces.  Numbers are integers (fractions and *)
(* exponents are not read), strings have no escapes.  matchers.rs and the  *)
(* tests name the integer variant Int; json.rs names it NegativeInt or     *)
(* PositiveInt by range: the model has the one variant Int.                *)
(***************************************************************************)
RECURSIVE SkipWs(_)
SkipWs(txt) == IF txt # <<>> /\ Head(txt) = " " THEN SkipWs(Tail(txt)) ELSE txt

StartsWith(txt, prefix) ==
    Len(txt) >= Len(prefix) /\ SubSeq(txt, 1, Len(prefix)) = prefix

Drop(txt, n) == SubSeq(txt, n + 1, Len(txt))

\* how many digits txt starts with
RECURSIVE DigitsPrefixLen(_)
DigitsPrefixLen(txt) ==
    IF txt # <<>> /\ IsDigit(Head(txt)) THEN 1 + DigitsPrefixLen(Tail(txt)) ELSE 0

\* a number at the head of txt: Some([v, rest]) or None; -0 is read as the
\* float -0.0
ParseNumber(txt) ==
    LET neg == txt # <<>> /\ Head(txt) = "-"
        body == IF neg THEN Tail(txt) ELSE txt
        n == DigitsPrefixLen(body)
        digits == SubSeq(body, 1, n)
    IN IF ~IsNatLiteral(digits) THEN None
       ELSE Some([v |-> IF neg /\ TextToNat(digits, 0) = 0 THEN [j |-> "Float", v |-> 0]
                        ELSE [j |-> "Int",
                              v |-> IF neg THEN 0 - TextToNat(digits, 0)
                                    ELSE TextToNat(digits, 0)],
                  rest |-> Drop(body, n)])

\* the index of the first quote of txt after its first character, or 0
ClosingQuote(txt) ==
    IF \E i \in 2..Len(txt) : txt[i] = "\""
    THEN CHOOSE i \in 2..Len(txt) : txt[i] = "\"" /\ \A k \in 2..(i - 1) : txt[k] # "\""
    ELSE 0

\* a string at the head of txt: Some([v |-> its characters, rest]) or None
ParseString(txt) ==
    IF txt = <<>> \/ Head(txt) # "\"" \/ ClosingQuote(txt) = 0 THEN None
    ELSE LET close == ClosingQuote(txt) IN
         IF \E k \in 2..(close - 1) : txt[k] = "\\" THEN None
         ELSE Some([v |-> SubSeq(txt, 2, close - 1), rest |-> Drop(txt, close)])

RECURSIVE ParseValue(_)
RECURSIVE ParseItems(_, _)
RECURSIVE ParseMembers(_, _)

\* the items of an array after "[": value ("," value)* "]"
ParseItems(txt, acc) ==
    LET item == ParseValue(txt) IN
    IF ~IsSome(item) THEN None
    ELSE LET t == SkipWs(Unwrap(item).rest)
             list == Append(acc, Unwrap(item).v)
         IN IF t = <<>> THEN None
            ELSE IF Head(t) = "," THEN ParseItems(Tail(t), list)
            ELSE IF Head(t) = "]" THEN Some([v |-> [j |-> "List", v |-> list], rest |-> Tail(t)])
            ELSE None

\* the members of an object after "{": string ":" value ("," ...)* "}"; a
\* key that comes again replaces the value it had
ParseMembers(txt, map) ==
    LET key == ParseString(SkipWs(txt)) IN
    IF ~IsSome(key) THEN None
    ELSE LET t1 == SkipWs(Unwrap(key).rest) IN
         IF t1 = <<>> \/ Head(t1) # ":" THEN None
         ELSE LET val == ParseValue(Tail(t1)) IN
              IF ~IsSome(val) THEN None
              ELSE LET t2 == SkipWs(Unwrap(val).rest)
                       entries == (Unwrap(key).v :> Unwrap(val).v) @@ map
                   IN IF t2 = <<>> THEN None
                      ELSE IF Head(t2) = "," THEN ParseMembers(Tail(t2), entries)
                      ELSE IF Head(t2) = "}"
                      THEN Some([v |-> [j |-> "Object", v |-> entries], rest |-> Tail(t2)])
                      ELSE None

\* one value at the head of txt, after spaces: Some([v, rest]) or None
ParseValue(txt0) ==
    LET txt == SkipWs(txt0) IN
    CASE StartsWith(txt, <<"n", "u", "l", "l">>) ->
            Some([v |-> [j |-> "Null"], rest |-> Drop(txt, 4)])
      [] StartsWith(txt, <<"t", "r", "u", "e">>) ->
            Some([v |-> [j |-> "Bool", v |-> TRUE], rest |-> Drop(txt, 4)])
      [] StartsWith(txt, <<"f", "a", "l", "s", "e">>) ->
            Some([v |-> [j |-> "Bool", v |-> FALSE], rest |-> Drop(txt, 5)])
      [] StartsWith(txt, <<"\"">>) ->
            (LET str == ParseString(txt) IN
             IF IsSome(str)
             THEN Some([v |-> [j |-> "Str", v |-> Unwrap(str).v], rest |-> Unwrap(str).rest])
             ELSE None)
      [] StartsWith(txt, <<"[">>) ->
            (LET t == SkipWs(Tail(txt)) IN
             IF StartsWith(t, <<"]">>)
             THEN Some([v |-> [j |-> "List", v |-> <<>>], rest |-> Tail(t)])
             ELSE ParseItems(t, <<>>))
      [] StartsWith(txt, <<"{">>) ->
            (LET t == SkipWs(Tail(txt)) IN
             IF StartsWith(t, <<"}">>)
             THEN Some([v |-> [j |-> "Object", v |-> EmptyMap], rest |-> Tail(t)])
             ELSE ParseMembers(t, EmptyMap))
      [] OTHER -> ParseNumber(txt)

\* JsonValue::try_from(&str): Some(value), or None for the Err
JsonValue_try_from(txt) ==
    LET doc == ParseValue(txt) IN
    IF IsSome(doc) /\ SkipWs(Unwrap(doc).rest) = <<>> THEN Some(Unwrap(doc).v) ELSE None

(***************************************************************************)
(* Frames (tungstenite::Message): [f |-> "Text" | "Binary" | "Ping" |      *)
(* "Close", data].                                                         *)
(***************************************************************************)
\* Number::from_f64: None for a float that is not finite
Number_from_f64(json) ==
    IF "nan" \in DOMAIN json /\ json.nan THEN None ELSE Some(json.v)

\* Value::from(&JsonValue) unwraps Number::from_f64: whether it panics
RECURSIVE Value_from_panics(_)
Value_from_panics(json) ==
    CASE json.j = "Float" -> ~IsSome(Number_from_f64(json))
      [] json.j = "List" -> \E i \in 1..Len(json.v) : Value_from_panics(json.v[i])
      [] OTHER -> FALSE

\* whether Stub::message panics after the delay was drawn: no response at
\* the cursor, or a Json response that Value::from cannot convert
Stub_message_panics(stub, invocations) ==
    \/ ~IsSome(Stub_response_get(stub, invocations))
    \/ /\ Stub_response(stub, invocations).t = "Json"
       /\ Value_from_panics(Stub_response(stub, invocations).v)

\* the match on the response at the end of Stub::message
Body_to_message(body) ==
    CASE body.t = "Json" -> [f |-> "Text", data |-> Json_to_string(body.v)]
      [] body.t = "PlainText" -> [f |-> "Text", data |-> body.v]
      [] body.t = "Binary" -> [f |-> "Binary", data |-> body.v]

\* the payload of a session that never reads a text frame as JSON
Frame_to_body_PlainText(frame) ==
    [t |-> IF frame.f = "Binary" THEN "Binary" ELSE "PlainText", v |-> frame.data]

\* the payload the session loop builds from a text or binary frame
Frame_to_body(frame) ==
    IF frame.f = "Binary" THEN [t |-> "Binary", v |-> frame.data]
    ELSE LET json == JsonValue_try_from(frame.data) IN
         IF IsSome(json) THEN [t |-> "Json", v |-> Unwrap(json)]
         ELSE [t |-> "PlainText", v |-> frame.data]

\* StubsHandle::on_periodical: from_fn(|| get_message(..)).collect(), the
\* bodies of the messages in the order they are produced
RECURSIVE OnPeriodical(_, _, _)
OnPeriodical(stubs, headers, invocations) ==
    LET idx == SelectedStub(stubs, None, headers, invocations) IN
    IF idx = 0 THEN <<>>
    ELSE <<Body_to_message(Stub_response(stubs[idx], invocations))>>
         \o OnPeriodical(stubs, headers, InvocationsAfter(stubs[idx], invocations))

\* Stub::message with `now` read from the clock and `dur` drawn from
\* DelayChoices(stub)
Stub_message(stub, invocations, now, dur) ==
    [msg |-> Body_to_message(Stub_response(stub, invocations)),
     at |-> AvailableAt(now, dur),
     g |-> [kind |-> stub.kind,
            delay |-> IF stub.kind = "Connect" THEN [d |-> "Fixed", dur |-> 0]
                      ELSE stub.delay,
            dur |-> dur,
            made |-> now]]

(***************************************************************************)
(* The builders of src/src/ws/builders.rs.  A Duration is a number of      *)
(* ticks.                                                                  *)
(***************************************************************************)
OnMessageBuilder_default == [headers |-> None, delay |-> None, payload |-> None]

\* with_delay_interval_in that keeps the bounds in the order given
OnMessageBuilder_with_delay_interval_in_Unordered(builder, lower, upper) ==
    [builder EXCEPT !.delay =
        Some(IF lower = upper THEN [d |-> "Fixed", dur |-> lower]
             ELSE [d |-> "Interval", from |-> lower, to |-> upper])]

OnMessageBuilder_with_delay_interval_in(builder, lower, upper) ==
    [builder EXCEPT !.delay =
        Some(CASE lower = upper -> [d |-> "Fixed", dur |-> lower]
               [] lower > upper -> [d |-> "Interval", from |-> upper, to |-> lower]
               [] OTHER -> [d |-> "Interval", from |-> lower, to |-> upper])]

OnMessageBuilder_with_json_body_eq(builder, body) ==
    [builder EXCEPT !.payload = Some([t |-> "Json", m |-> JsonMatcher_from(body)])]

OnMessageBuilder_build(builder, body) ==
    [kind |-> "Message", headers |-> builder.headers, payload |-> builder.payload,
     delay |-> IF IsSome(builder.delay) THEN Unwrap(builder.delay)
               ELSE [d |-> "Fixed", dur |-> Duration_from_millis(0)],
     response |-> body]

OnPeriodicalBuilder_default ==
    [id |-> None, headers |-> None, delay |-> None, responses |-> <<>>]

OnPeriodicalBuilder_with_id(builder, id) == [builder EXCEPT !.id = Some(id)]

OnPeriodicalBuilder_with_delay_interval_in(builder, lower, upper) ==
    [builder EXCEPT !.delay =
        Some(CASE lower = upper -> [d |-> "Fixed", dur |-> lower]
               [] lower > upper -> [d |-> "Interval", from |-> upper, to |-> lower]
               [] OTHER -> [d |-> "Interval", from |-> lower, to |-> upper])]

OnPeriodicalBuilder_returning_text(builder, text) ==
    [builder EXCEPT !.responses = Append(@, [t |-> "PlainText", v |-> text])]

\* build: `sample` is the id Alphanumeric.sample_string draws, used when no
\* with_id was called
OnPeriodicalBuilder_build(builder, sample) ==
    [kind |-> "Periodical",
     id |-> IF IsSome(builder.id) THEN Unwrap(builder.id) ELSE sample,
     headers |-> builder.headers,
     delay |-> IF IsSome(builder.delay) THEN Unwrap(builder.delay)
               ELSE [d |-> "Fixed", dur |-> Duration_from_millis(0)],
     responses |-> builder.responses]

(***************************************************************************)
(* The stubs, headers and frames the model draws from: what the builders   *)
(* of src/src/ws/builders.rs produce for a test suite.                     *)
(***************************************************************************)
tA == <<"a">>
tB == <<"b">>
tAB == <<"a", "b">>

Text(v) == [t |-> "PlainText", v |-> v]
Fixed(ms) == [d |-> "Fixed", dur |-> Duration_from_millis(ms)]
TEq(v) == [kind |-> "Eq", part |-> v]

DurationHuge == InstantMax + 1

ConnectPlain == [kind |-> "Connect", headers |-> None, response |-> Text(<<"A">>)]
ConnectAuth ==
    [kind |-> "Connect", headers |-> Some("authorization" :> TEq(tAB)),
     response |-> Text(<<"B">>)]

ConnectNaN ==
    [kind |-> "Connect", headers |-> Some("host" :> [kind |-> "Any"]),
     response |-> [t |-> "Json", v |-> [j |-> "Float", v |-> 0, nan |-> TRUE]]]
MessageEmptyRange ==
    [kind |-> "Message", headers |-> None, payload |-> None,
     delay |-> [d |-> "Interval", from |-> 0, to |-> 1],
     response |-> Text(<<"r", "5">>)]

ConnectStubs ==
    { ConnectPlain, ConnectAuth,
      [kind |-> "Connect",
       headers |-> Some("authorization" :> TEq(tAB)
                        @@ "dummy-header" :> [kind |-> "Contains", part |-> tA]),
       response |-> Text(<<"C">>)],
      [kind |-> "Connect", headers |-> Some("authorization" :> TEq(tAB)),
       response |-> Text(<<"D">>)],
      [kind |-> "Connect", headers |-> Some("dummy-header" :> [kind |-> "None"]),
       response |-> [t |-> "Json", v |-> [j |-> "Int", v |-> 1]]] }

MessageFast ==
    [kind |-> "Message", headers |-> None,
     payload |-> Some([t |-> "PlainText", m |-> TEq(tA)]),
     delay |-> Fixed(1), response |-> Text(<<"r", "1">>)]
MessageSlow ==
    [kind |-> "Message", headers |-> None,
     payload |-> Some([t |-> "PlainText", m |-> TEq(tB)]),
     delay |-> Fixed(3), response |-> Text(<<"r", "2">>)]
MessageInterval ==
    [kind |-> "Message", headers |-> None, payload |-> None,
     delay |-> [d |-> "Interval", from |-> Duration_from_millis(1),
                to |-> Duration_from_millis(3)],
     response |-> Text(<<"r", "3">>)]
MessageHuge ==
    [kind |-> "Message", headers |-> Some("authorization" :> [kind |-> "Any"]),
     payload |-> Some([t |-> "PlainText", m |-> [kind |-> "LenEq", len |-> 1]]),
     delay |-> [d |-> "Fixed", dur |-> DurationHuge],
     response |-> Text(<<"r", "4">>)]

MessageStubs ==
    { MessageFast, MessageSlow, MessageInterval, MessageHuge,
      [kind |-> "Message", headers |-> None,
       payload |-> Some([t |-> "Json",
                         m |-> [kind |-> "Int", m |-> [kind |-> "GreaterThan", n |-> 0]]]),
       delay |-> Fixed(0), response |-> [t |-> "Binary", v |-> tAB]] }

PeriodicalTwo ==
    [kind |-> "Periodical", id |-> "p1", headers |-> None, delay |-> Fixed(1),
     responses |-> <<Text(<<"m", "1">>), Text(<<"m", "2">>)>>]

\* a second stub built with the same with_id
PeriodicalShort ==
    [kind |-> "Periodical", id |-> "p1", headers |-> None, delay |-> Fixed(0),
     responses |-> <<Text(<<"s", "1">>)>>]
PeriodicalAuth ==
    [kind |-> "Periodical", id |-> "p3",
     headers |-> Some("authorization" :> TEq(tAB)), delay |-> Fixed(3),
     responses |-> <<Text(<<"q", "1">>), Text(<<"q", "2">>)>>]

PeriodicalStubs ==
    { PeriodicalTwo,
      [kind |-> "Periodical", id |-> "p2",
       headers |-> Some("authorization" :> [kind |-> "Fn", f |-> "present5"]),
       delay |-> Fixed(0), responses |-> <<Text(<<"n", "1">>)>>] }

AllStubs == ConnectStubs \cup MessageStubs \cup PeriodicalStubs

\* the stubs of the test suite of the running server
ServerStubs ==
    {ConnectPlain, ConnectAuth, MessageFast, MessageSlow, MessageInterval, MessageHuge,
     PeriodicalTwo}

\* The header names a client writes and the names the handshake callback
\* stores: header.to_string() of an http::HeaderName is the lower-case name.
HeaderName_to_string(name) ==
    CASE name = "Host" -> "host"
      [] name = "Authorization" -> "authorization"
      [] name = "Dummy-Header" -> "dummy-header"

RequestPlain == "Host" :> <<"h">>
RequestAuth == "Host" :> <<"h">> @@ "Authorization" :> tAB

RequestHeaders ==
    { RequestPlain, RequestAuth,
      "Host" :> <<"h">> @@ "Authorization" :> tAB @@ "Dummy-Header" :> tA }

\* the callback of accept_hdr: every request header, under its stored name
HandshakeHeaders(req) ==
    [k \in {HeaderName_to_string(n) : n \in DOMAIN req} |->
        req[CHOOSE n \in DOMAIN req : HeaderName_to_string(n) = k]]

DataFrames ==
    { [f |-> "Text", data |-> tA], [f |-> "Text", data |-> tB],
      [f |-> "Text", data |-> <<"1">>], [f |-> "Binary", data |-> tA] }

\* what the client of a running server writes
ClientFrames ==
    { [f |-> "Text", data |-> tA], [f |-> "Text", data |-> tB],
      [f |-> "Ping", data |-> <<>>] }

AllSessions == {"s1", "s2"}
Sessions == {"s1"}
ApiThreads == {"t1"}
Threads == {"listener"} \cup AllSessions \cup ApiThreads

(***************************************************************************)
(* State.                                                                  *)
(*   on_connect, on_message, on_periodical: the three Vec<Stub> of the     *)
(*     StubsHandle;                                                        *)
(*   invocations: PERIODICALLY_STUBS_INVOCATION_COUNT, one map per thread; *)
(*   clock, events: Instant::now() and the times it advanced;               *)
(*   sess: per connection, the session thread (pc, headers, messages, now, *)
(*     read_timeout), its socket (inbox, peer, closing) and what it wrote  *)
(*     (sent);                                                             *)
(*   api: per calling thread, a direct caller of the StubsHandle;          *)
(*   lookup: the last get_message call, for the properties;                *)
(*   server: the ServerHandle values alive (handles) and the thread of     *)
(*     Server::run that owns the TcpListener (listener);                   *)
(*   probe: one call of a function of the library on its own, with the     *)
(*     arguments it was given and, once it returned, its result.           *)
(***************************************************************************)
VARIABLES on_connect, on_message, on_periodical, invocations, clock, events,
          sess, api, lookup, server, probe

vars == <<on_connect, on_message, on_periodical, invocations, clock, events,
          sess, api, lookup, server, probe>>

registry == <<on_connect, on_message, on_periodical>>

Session0 ==
    [pc |-> "closed", headers |-> EmptyMap, messages |-> <<>>, now |-> 0,
     read_timeout |-> None, read_at |-> 0, inbox |-> <<>>, peer |-> "open",
     closing |-> FALSE, sent |-> <<>>, last_read |-> "none",
     start |-> [on_connect |-> 0, on_periodical |-> 0]]

\* the server once Server::start returned, nothing registered yet
Init0 ==
    /\ on_connect = <<>>
    /\ on_message = <<>>
    /\ on_periodical = <<>>
    /\ invocations = [t \in Threads |-> EmptyMap]
    /\ clock = 0
    /\ events = 0
    /\ sess = [s \in AllSessions |-> Session0]
    /\ api = [t \in ApiThreads |-> [pc |-> "idle", headers |-> EmptyMap, out |-> <<>>]]
    /\ lookup = None
    /\ server = [handles |-> 1, listener |-> "listening"]

Init == Init0 /\ probe = None

(***************************************************************************)
(* StubsHandle::register (through ServerHandle::register).                 *)
(***************************************************************************)
\* register that pushes the stub on each of the three sequences
Register_AllSequences(stub) ==
    /\ server.handles > 0
    /\ Len(on_connect) + Len(on_message) + Len(on_periodical) < MaxStubs
    /\ events < MaxEvents
    /\ events' = events + 1
    /\ on_connect' = Append(on_connect, stub)
    /\ on_message' = Append(on_message, stub)
    /\ on_periodical' = Append(on_periodical, stub)
    /\ UNCHANGED <<invocations, clock, sess, api, lookup, server, probe>>

\* register with insert(0, stub) in place of push(stub)
Register_Prepends(stub) ==
    /\ server.handles > 0
    /\ Len(on_connect) + Len(on_message) + Len(on_periodical) < MaxStubs
    /\ events < MaxEvents
    /\ events' = events + 1
    /\ on_connect' = IF stub.kind = "Connect" THEN <<stub>> \o on_connect ELSE on_connect
    /\ on_message' = IF stub.kind = "Message" THEN <<stub>> \o on_message ELSE on_message
    /\ on_periodical' =
          IF stub.kind = "Periodical" THEN <<stub>> \o on_periodical ELSE on_periodical
    /\ UNCHANGED <<invocations, clock, sess, api, lookup, server, probe>>

Register(stub) ==
    /\ server.handles > 0
    /\ Len(on_connect) + Len(on_message) + Len(on_periodical) < MaxStubs
    /\ events < MaxEvents
    /\ events' = events + 1
    /\ on_connect' = IF stub.kind = "Connect" THEN Append(on_connect, stub) ELSE on_connect
    /\ on_message' = IF stub.kind = "Message" THEN Append(on_message, stub) ELSE on_message
    /\ on_periodical' =
          IF stub.kind = "Periodical" THEN Append(on_periodical, stub) ELSE on_periodical
    /\ UNCHANGED <<invocations, clock, sess, api, lookup, server, probe>>

\* what one get_message call saw and chose
LookupRecord(kind, stubs, headers, payload, inv, chosen, out) ==
    Some([kind |-> kind, n |-> Len(stubs), headers |-> headers, payload |-> payload,
          inv |-> inv, chosen |-> chosen, out |-> out])

(***************************************************************************)
(* Server::run, the listener thread: accept, handshake, on_connect, spawn. *)
(***************************************************************************)
\* on_connect runs in the listener thread, in the block that builds the
\* closure handed to thread::spawn: a panic of Stub::message there unwinds
\* the thread of Server::run and the connection is dropped with it.
Accept(s, req) ==
    /\ server.listener = "listening"
    /\ sess[s].pc = "closed"
    /\ \E headers \in {HandshakeHeaders(req)} :
       \E idx \in {SelectedStub(on_connect, None, headers, invocations["listener"])} :
       \E panics \in {idx # 0 /\ Stub_message_panics(on_connect[idx],
                                                      invocations["listener"])} :
          /\ server' = IF panics THEN [server EXCEPT !.listener = "panicked"] ELSE server
          /\ sess' = [sess EXCEPT
                ![s].pc = IF panics THEN "aborted" ELSE "top",
                ![s].headers = headers,
                ![s].start = [on_connect |-> Len(on_connect),
                              on_periodical |-> Len(on_periodical)],
                ![s].messages =
                    IF idx = 0 \/ panics THEN <<>>
                    ELSE Heap_push(<<>>, Stub_message(on_connect[idx],
                                                      invocations["listener"], clock, 0))]
    /\ UNCHANGED <<registry, invocations, clock, events, api, lookup, probe>>

\* listener.incoming() yields an Err: Err(_) => continue
AcceptError ==
    /\ server.listener = "listening"
    /\ events < MaxEvents
    /\ events' = events + 1
    /\ UNCHANGED <<registry, invocations, clock, sess, api, lookup, server, probe>>

\* accept_hdr fails (the client did not complete the handshake): continue
HandshakeFails(s) ==
    /\ server.listener = "listening"
    /\ sess[s].pc = "closed"
    /\ events < MaxEvents
    /\ events' = events + 1
    /\ sess' = [sess EXCEPT ![s].pc = "aborted"]
    /\ UNCHANGED <<registry, invocations, clock, api, lookup, server, probe>>

(***************************************************************************)
(* ServerHandle: #[derive(Clone)], no Drop.  The TcpListener belongs to    *)
(* the thread of Server::run.                                              *)
(***************************************************************************)
CloneHandle ==
    /\ server.handles > 0
    /\ server.handles < MaxHandles
    /\ events < MaxEvents
    /\ events' = events + 1
    /\ server' = [server EXCEPT !.handles = @ + 1]
    /\ UNCHANGED <<registry, invocations, clock, sess, api, lookup, probe>>

DropHandle ==
    /\ server.handles > 0
    /\ events < MaxEvents
    /\ events' = events + 1
    /\ server' = [server EXCEPT !.handles = @ - 1]
    /\ UNCHANGED <<registry, invocations, clock, sess, api, lookup, probe>>

(***************************************************************************)
(* The session thread, one action per step of its loop.                    *)
(***************************************************************************)
\* let now = Instant::now(); if messages.is_empty() { set_read_timeout(1000 ms) }
LoopTop(s) ==
    /\ sess[s].pc = "top"
    /\ sess' = [sess EXCEPT
           ![s].pc = "flush",
           ![s].now = clock,
           ![s].read_timeout =
               IF sess[s].messages = <<>>
               THEN Some(Duration_from_millis(READ_TIMEOUT_MS))
               ELSE sess[s].read_timeout]
    /\ UNCHANGED <<registry, invocations, clock, events, api, lookup, server, probe>>

\* the flush loop with *when < now
IsDue_Strict(when, now) == when < now

IsDue(when, now) == when <= now

\* websocket.send(msg): Ok on a healthy connection; an Err once the Close
\* frame of the peer was read; either after the connection broke
SendOutcomes(s) ==
    IF sess[s].closing THEN {FALSE}
    ELSE IF sess[s].peer \in {"eof", "reset"} THEN BOOLEAN
    ELSE {TRUE}

\* while let Some(Msg(_, when)) = messages.peek(): the arm *when <= now
FlushSend(s, ok) ==
    /\ sess[s].pc = "flush"
    /\ IsSome(Heap_peek(sess[s].messages))
    /\ LET head == Unwrap(Heap_peek(sess[s].messages)) IN
       /\ IsDue(head.at, sess[s].now)
       /\ sess' = [sess EXCEPT
              ![s].messages = Heap_pop(sess[s].messages),
              ![s].sent = Append(sess[s].sent,
                                 [msg |-> head.msg, at |-> head.at, g |-> head.g,
                                  sent_at |-> clock, ok |-> ok])]
    /\ UNCHANGED <<registry, invocations, clock, events, api, lookup, server, probe>>

\* the loop without set_read_timeout(when.duration_since(now)): the read
\* keeps the timeout it had
TimeoutBeforeRead_Keeps(messages, now, read_timeout) == read_timeout

\* the timeout the loop leaves on the socket when it goes on to read
TimeoutBeforeRead(messages, now, read_timeout) ==
    IF IsSome(Heap_peek(messages))
    THEN Some(Unwrap(Heap_peek(messages)).at - now)
    ELSE read_timeout

\* the while loop ends: the head is not due (set_read_timeout(when - now);
\* break) or the heap is empty; websocket.read() starts
FlushEnd(s) ==
    /\ sess[s].pc = "flush"
    /\ IsSome(Heap_peek(sess[s].messages)) =>
          ~IsDue(Unwrap(Heap_peek(sess[s].messages)).at, sess[s].now)
    /\ sess' = [sess EXCEPT
           ![s].pc = "read",
           ![s].read_at = clock,
           ![s].read_timeout =
               TimeoutBeforeRead(sess[s].messages, sess[s].now, sess[s].read_timeout)]
    /\ UNCHANGED <<registry, invocations, clock, events, api, lookup, server, probe>>

\* ReadFrame without the arm Ok(_) => continue: the data of every frame
\* is decoded and handed to on_message
ReadFrame_LooksUpEveryFrame(s) ==
    /\ sess[s].pc = "read"
    /\ sess[s].peer # "reset"
    /\ sess[s].inbox # <<>>
    /\ \E frame \in {Head(sess[s].inbox)} :
       \E payload \in {Some(Frame_to_body(frame))} :
       \E idx \in {SelectedStub(on_message, payload, sess[s].headers, invocations[s])} :
       \E choices \in {IF idx = 0 THEN {0}
                        ELSE IF Stub_message_panics(on_message[idx], invocations[s]) THEN {}
                        ELSE DelayChoices(on_message[idx])} :
       \E dur \in (IF choices = {} THEN {0} ELSE choices) :
          sess' = [sess EXCEPT
              ![s].pc = IF choices = {} THEN "panicked" ELSE "top",
              ![s].inbox = Tail(sess[s].inbox),
              ![s].closing = (frame.f = "Close"),
              ![s].last_read = IF frame.f \in {"Text", "Binary"} THEN "data" ELSE "frame",
              ![s].messages =
                  IF idx = 0 \/ choices = {} THEN sess[s].messages
                  ELSE Heap_push(sess[s].messages,
                                 Stub_message(on_message[idx], invocations[s], clock, dur))]
    /\ UNCHANGED <<registry, invocations, clock, events, api, lookup, server, probe>>

\* ReadFrame with one header map for all connections: on_message scores
\* against the headers of the handshake accepted last
ReadFrame_SharedHeaders(s) ==
    /\ sess[s].pc = "read"
    /\ sess[s].peer # "reset"
    /\ sess[s].inbox # <<>>
    /\ \E frame \in {Head(sess[s].inbox)} :
       \E headers \in {IF \E r \in AllSessions \ {s} : sess[r].pc # "closed"
                        THEN sess[CHOOSE r \in AllSessions \ {s} : sess[r].pc # "closed"].headers
                        ELSE sess[s].headers} :
       \E payload \in {IF frame.f \in {"Text", "Binary"}
                       THEN Some(Frame_to_body(frame)) ELSE None} :
       \E idx \in {IF IsSome(payload)
                   THEN SelectedStub(on_message, payload, headers, invocations[s])
                   ELSE 0} :
       \E choices \in {IF idx = 0 THEN {0}
                        ELSE IF Stub_message_panics(on_message[idx], invocations[s]) THEN {}
                        ELSE DelayChoices(on_message[idx])} :
       \E dur \in (IF choices = {} THEN {0} ELSE choices) :
          sess' = [sess EXCEPT
              ![s].pc = IF choices = {} THEN "panicked" ELSE "top",
              ![s].inbox = Tail(sess[s].inbox),
              ![s].closing = (frame.f = "Close"),
              ![s].last_read = IF IsSome(payload) THEN "data" ELSE "frame",
              ![s].messages =
                  IF idx = 0 \/ choices = {} THEN sess[s].messages
                  ELSE Heap_push(sess[s].messages,
                                 Stub_message(on_message[idx], invocations[s], clock, dur))]
    /\ UNCHANGED <<registry, invocations, clock, events, api, lookup, server, probe>>

\* websocket.read() returns a frame: a text or binary frame becomes the
\* payload of on_message, any other frame is skipped (Ok(_) => continue).
\* A Close frame leaves the connection closing: the next read fails with
\* ConnectionClosed.  An empty random range in Stub::message panics the
\* session thread.
ReadFrame(s) ==
    /\ sess[s].pc = "read"
    /\ sess[s].peer # "reset"
    /\ sess[s].inbox # <<>>
    /\ \E frame \in {Head(sess[s].inbox)} :
       \E payload \in {IF frame.f \in {"Text", "Binary"}
                       THEN Some(Frame_to_body(frame)) ELSE None} :
       \E idx \in {IF IsSome(payload)
                   THEN SelectedStub(on_message, payload, sess[s].headers, invocations[s])
                   ELSE 0} :
       \E choices \in {IF idx = 0 THEN {0}
                        ELSE IF Stub_message_panics(on_message[idx], invocations[s]) THEN {}
                        ELSE DelayChoices(on_message[idx])} :
       \E dur \in (IF choices = {} THEN {0} ELSE choices) :
          sess' = [sess EXCEPT
              ![s].pc = IF choices = {} THEN "panicked" ELSE "top",
              ![s].inbox = Tail(sess[s].inbox),
              ![s].closing = (frame.f = "Close"),
              ![s].last_read = IF IsSome(payload) THEN "data" ELSE "frame",
              ![s].messages =
                  IF idx = 0 \/ choices = {} THEN sess[s].messages
                  ELSE Heap_push(sess[s].messages,
                                 Stub_message(on_message[idx], invocations[s], clock, dur))]
    /\ UNCHANGED <<registry, invocations, clock, events, api, lookup, server, probe>>

\* the read timeout elapses with nothing to read: Err(Error::Io(_)) => continue
ReadTimeout(s) ==
    /\ sess[s].pc = "read"
    /\ sess[s].peer = "open"
    /\ sess[s].inbox = <<>>
    /\ IsSome(sess[s].read_timeout)
    /\ clock >= sess[s].read_at + Unwrap(sess[s].read_timeout)
    /\ sess' = [sess EXCEPT ![s].pc = "top", ![s].last_read = "timeout"]
    /\ UNCHANGED <<registry, invocations, clock, events, api, lookup, server, probe>>

\* where the match on the result of websocket.read() sends the loop
AfterReadError(err) == IF err = "Io" THEN "top" ELSE "done"

\* the connection failed (reset by the peer, broken network): the read
\* fails with an I/O error that is no timeout: Err(Error::Io(_)).  What the
\* socket reports to the next read is the platform's choice: the same error
\* again, or the end of the stream.
ReadIoFailure(s) ==
    /\ sess[s].pc = "read"
    /\ sess[s].peer = "reset"
    /\ \E after \in {"reset", "eof"} :
          sess' = [sess EXCEPT
              ![s].pc = AfterReadError("Io"),
              ![s].peer = after,
              ![s].last_read = "io_failure"]
    /\ UNCHANGED <<registry, invocations, clock, events, api, lookup, server, probe>>

\* the peer closed: after its Close frame the read fails with
\* ConnectionClosed, after a shutdown without one with a Protocol error
ReadClosed(s) ==
    /\ sess[s].pc = "read"
    /\ sess[s].inbox = <<>>
    /\ sess[s].closing \/ sess[s].peer = "eof"
    /\ sess' = [sess EXCEPT
           ![s].pc = AfterReadError(IF sess[s].closing THEN "ConnectionClosed"
                                    ELSE "Protocol"),
           ![s].last_read = "closed"]
    /\ UNCHANGED <<registry, invocations, clock, events, api, lookup, server, probe>>

(***************************************************************************)
(* The client of a connection and the network.                             *)
(***************************************************************************)
Connected(s) ==
    /\ sess[s].pc \notin {"closed", "aborted", "done", "panicked"}
    /\ sess[s].peer = "open"

ClientSend(s, frame) ==
    /\ Connected(s)
    /\ events < MaxEvents
    /\ events' = events + 1
    /\ sess' = [sess EXCEPT ![s].inbox = Append(sess[s].inbox, frame)]
    /\ UNCHANGED <<registry, invocations, clock, api, lookup, server, probe>>

ClientClose(s) ==
    /\ Connected(s)
    /\ events < MaxEvents
    /\ events' = events + 1
    /\ sess' = [sess EXCEPT
           ![s].inbox = Append(sess[s].inbox, [f |-> "Close", data |-> <<>>]),
           ![s].peer = "closed"]
    /\ UNCHANGED <<registry, invocations, clock, api, lookup, server, probe>>

ClientAbort(s) ==
    /\ Connected(s)
    /\ events < MaxEvents
    /\ events' = events + 1
    /\ sess' = [sess EXCEPT ![s].peer = "eof"]
    /\ UNCHANGED <<registry, invocations, clock, api, lookup, server, probe>>

ConnectionFails(s) ==
    /\ Connected(s)
    /\ events < MaxEvents
    /\ events' = events + 1
    /\ sess' = [sess EXCEPT ![s].peer = "reset", ![s].inbox = <<>>]
    /\ UNCHANGED <<registry, invocations, clock, api, lookup, server, probe>>

(***************************************************************************)
(* Time: the clock moves on by one tick, or to the next instant something  *)
(* is waiting for.                                                         *)
(***************************************************************************)
Deadlines ==
    UNION { {sess[s].messages[i].at : i \in 1..Len(sess[s].messages)}
                \cup (IF sess[s].pc = "read" /\ IsSome(sess[s].read_timeout)
                      THEN {sess[s].read_at + Unwrap(sess[s].read_timeout)} ELSE {})
            : s \in AllSessions }

Tick ==
    /\ events < MaxEvents
    /\ \E t \in {clock + 1} \cup Deadlines :
          /\ t > clock
          /\ t <= InstantMax
          /\ clock' = t
    /\ events' = events + 1
    /\ UNCHANGED <<registry, invocations, sess, api, lookup, server, probe>>

Next ==
    \/ \E stub \in ServerStubs : Register(stub)
    \/ \E s \in Sessions, req \in {RequestPlain, RequestAuth} : Accept(s, req)
    \/ \E s \in Sessions : LoopTop(s)
    \/ \E s \in Sessions : \E ok \in SendOutcomes(s) : FlushSend(s, ok)
    \/ \E s \in Sessions : FlushEnd(s)
    \/ \E s \in Sessions : ReadFrame(s)
    \/ \E s \in Sessions : ReadTimeout(s)
    \/ \E s \in Sessions : ReadIoFailure(s)
    \/ \E s \in Sessions : ReadClosed(s)
    \/ \E s \in Sessions, frame \in ClientFrames : ClientSend(s, frame)
    \/ \E s \in Sessions : ClientClose(s)
    \/ \E s \in Sessions : ClientAbort(s)
    \/ \E s \in Sessions : ConnectionFails(s)
    \/ Tick

Spec == Init /\ [][Next]_vars

(***************************************************************************)
(* Two clients of one server whose stubs need no frame from the client.    *)
(***************************************************************************)
NextSessions ==
    \/ \E stub \in {PeriodicalTwo, ConnectPlain} : Register(stub)
    \/ \E s \in AllSessions : Accept(s, RequestPlain)
    \/ \E s \in AllSessions : LoopTop(s)
    \/ \E s \in AllSessions : \E ok \in SendOutcomes(s) : FlushSend(s, ok)
    \/ \E s \in AllSessions : FlushEnd(s)
    \/ \E s \in AllSessions : ReadTimeout(s)
    \/ Tick

SpecSessions == Init /\ [][NextSessions]_vars

(***************************************************************************)
(* Registration while a session is open: the Message stubs are registered  *)
(* only after the session has started, Connect stubs at any time.          *)
(***************************************************************************)
SessionOpen(s) == sess[s].pc \in {"top", "flush", "read"}

RegisterLate(stub) ==
    /\ \A s \in Sessions : SessionOpen(s)
    /\ Register(stub)

NextRegisterLate ==
    \/ \E stub \in {ConnectPlain, ConnectAuth} : Register(stub)
    \/ \E stub \in {MessageFast, MessageSlow, MessageInterval} : RegisterLate(stub)
    \/ \E s \in Sessions, req \in {RequestPlain, RequestAuth} : Accept(s, req)
    \/ \E s \in Sessions : LoopTop(s)
    \/ \E s \in Sessions : \E ok \in SendOutcomes(s) : FlushSend(s, ok)
    \/ \E s \in Sessions : FlushEnd(s)
    \/ \E s \in Sessions : ReadFrame(s)
    \/ \E s \in Sessions : ReadTimeout(s)
    \/ \E s \in Sessions, frame \in ClientFrames : ClientSend(s, frame)
    \/ Tick

SpecRegisterLate == Init /\ [][NextRegisterLate]_vars

(***************************************************************************)
(* A session left to itself: the client writes a few frames and then       *)
(* nothing (or closes), time goes on to the next deadline for as long as a *)
(* message is queued, and the session thread keeps being scheduled.        *)
(***************************************************************************)
\* time passes until the next instant a session with a message queued is
\* waiting for
TickToDeadline ==
    /\ \E queued \in {{s \in AllSessions : sess[s].messages # <<>>}} :
       \E pending \in
            {UNION { {sess[s].messages[i].at : i \in 1..Len(sess[s].messages)}
                        \cup (IF sess[s].pc = "read" /\ IsSome(sess[s].read_timeout)
                              THEN {sess[s].read_at + Unwrap(sess[s].read_timeout)}
                              ELSE {})
                    : s \in queued }} :
       \E t \in pending :
          /\ t > clock
          /\ t <= InstantMax
          /\ \A u \in pending : u > clock => t <= u
          /\ clock' = t
    /\ UNCHANGED <<registry, invocations, events, sess, api, lookup, server, probe>>

\* a step of the thread of session s
SessionStep(s) ==
    \/ LoopTop(s)
    \/ \E ok \in SendOutcomes(s) : FlushSend(s, ok)
    \/ FlushEnd(s)
    \/ ReadFrame(s)
    \/ ReadTimeout(s)
    \/ ReadClosed(s)

NextDrain ==
    \/ \E stub \in {ConnectPlain, MessageFast, MessageEmptyRange} : Register(stub)
    \/ \E s \in Sessions : Accept(s, RequestPlain)
    \/ \E s \in Sessions : SessionStep(s)
    \/ \E s \in Sessions, frame \in ClientFrames : ClientSend(s, frame)
    \/ \E s \in Sessions : ClientClose(s)
    \/ TickToDeadline

SpecDrain ==
    /\ Init
    /\ [][NextDrain]_vars
    /\ \A s \in Sessions : WF_vars(SessionStep(s))
    /\ WF_vars(TickToDeadline)

(***************************************************************************)
(* Two sessions open at once, one of a client that sent an Authorization   *)
(* header and one of a client that did not, both writing the same frame.   *)
(***************************************************************************)
NextIsolation ==
    \/ \E stub \in {ConnectPlain, ConnectAuth, MessageHuge} : Register(stub)
    \/ Accept("s1", RequestPlain)
    \/ Accept("s2", RequestAuth)
    \/ \E s \in AllSessions : LoopTop(s)
    \/ \E s \in AllSessions : \E ok \in SendOutcomes(s) : FlushSend(s, ok)
    \/ \E s \in AllSessions : FlushEnd(s)
    \/ \E s \in AllSessions : ReadFrame(s)
    \/ \E s \in AllSessions : ClientSend(s, [f |-> "Text", data |-> tB])

SpecIsolation == Init /\ [][NextIsolation]_vars

(***************************************************************************)
(* The life of the server: its handles, the listener thread with the       *)
(* failures of accept and handshake, and the sessions it spawns.           *)
(***************************************************************************)
NextServer ==
    \/ \E stub \in {ConnectPlain, MessageEmptyRange} : Register(stub)
    \/ Register(ConnectNaN)
    \/ CloneHandle
    \/ DropHandle
    \/ AcceptError
    \/ \E s \in AllSessions : HandshakeFails(s)
    \/ \E s \in AllSessions : Accept(s, RequestPlain)
    \/ \E s \in AllSessions : LoopTop(s)
    \/ \E s \in AllSessions : \E ok \in SendOutcomes(s) : FlushSend(s, ok)
    \/ \E s \in AllSessions : FlushEnd(s)
    \/ \E s \in AllSessions : ReadFrame(s)
    \/ \E s \in AllSessions : ReadClosed(s)
    \/ \E s \in AllSessions : ClientSend(s, [f |-> "Text", data |-> tA])
    \/ \E s \in AllSessions : ClientClose(s)

SpecServer == Init /\ [][NextServer]_vars

\* every thread that can take a step eventually takes one
SpecServerFair == SpecServer /\ WF_vars(NextServer)

(***************************************************************************)
(* The StubsHandle called directly (it is pub(crate)): on_connect,         *)
(* on_message and on_periodical on a calling thread t.  on_periodical is   *)
(* from_fn(|| get_message(..)).collect(): one get_message call per step,   *)
(* each taking the read lock anew, until a call returns None.              *)
(***************************************************************************)
\* get_message on thread t: the lookup, the Msg and the cursors after it
GetMessage(t, kind, stubs, req, payload) ==
    \E headers \in {HandshakeHeaders(req)} :
    \E idx \in {SelectedStub(stubs, payload, headers, invocations[t])} :
    \E choices \in {IF idx = 0 THEN {0}
                     ELSE IF Stub_message_panics(stubs[idx], invocations[t]) THEN {}
                     ELSE DelayChoices(stubs[idx])} :
    \E dur \in (IF choices = {} THEN {0} ELSE choices) :
    \E out \in {IF idx = 0 \/ choices = {} THEN None
                ELSE Some(Stub_message(stubs[idx], invocations[t], clock, dur))} :
        /\ lookup' = LookupRecord(kind, stubs, headers, payload, invocations[t], idx, out)
        /\ invocations' =
              IF IsSome(out)
              THEN [invocations EXCEPT ![t] = InvocationsAfter(stubs[idx], invocations[t])]
              ELSE invocations
        /\ api' = [api EXCEPT
              ![t].pc = IF choices = {} THEN "panicked"
                        ELSE IF kind = "Periodical" /\ idx # 0 THEN "periodical"
                        ELSE "idle",
              ![t].headers = req,
              ![t].out = IF kind = "Periodical" /\ api[t].pc = "periodical"
                         THEN api[t].out \o out ELSE out]

ApiOnConnect(t, req) ==
    /\ api[t].pc = "idle"
    /\ GetMessage(t, "Connect", on_connect, req, None)
    /\ UNCHANGED <<registry, clock, events, sess, server, probe>>

ApiOnMessage(t, req, frame) ==
    /\ api[t].pc = "idle"
    /\ \E payload \in {Some(Frame_to_body(frame))} :
          GetMessage(t, "Message", on_message, req, payload)
    /\ UNCHANGED <<registry, clock, events, sess, server, probe>>

\* the first get_message of on_periodical
ApiOnPeriodical(t, req) ==
    /\ api[t].pc = "idle"
    /\ GetMessage(t, "Periodical", on_periodical, req, None)
    /\ UNCHANGED <<registry, clock, events, sess, server, probe>>

\* the next get_message of the same on_periodical call
ApiOnPeriodicalNext(t) ==
    /\ api[t].pc = "periodical"
    /\ GetMessage(t, "Periodical", on_periodical, api[t].headers, None)
    /\ UNCHANGED <<registry, clock, events, sess, server, probe>>

(***************************************************************************)
(* on_periodical alone: Periodical stubs, two of them with the same id,    *)
(* and the clock moving between the get_message calls.                     *)
(***************************************************************************)
NextPeriodical ==
    \/ \E stub \in {PeriodicalTwo, PeriodicalShort, PeriodicalAuth} : Register(stub)
    \/ \E t \in ApiThreads, req \in {RequestPlain, RequestAuth} : ApiOnPeriodical(t, req)
    \/ \E t \in ApiThreads : ApiOnPeriodicalNext(t)
    \/ Tick

SpecPeriodical == Init /\ [][NextPeriodical]_vars

NextLookup ==
    \/ \E stub \in AllStubs : Register(stub)
    \/ \E t \in ApiThreads, req \in RequestHeaders : ApiOnConnect(t, req)
    \/ \E t \in ApiThreads, req \in RequestHeaders, frame \in DataFrames :
          ApiOnMessage(t, req, frame)
    \/ \E t \in ApiThreads, req \in RequestHeaders : ApiOnPeriodical(t, req)
    \/ \E t \in ApiThreads : ApiOnPeriodicalNext(t)

SpecLookup == Init /\ [][NextLookup]_vars

(***************************************************************************)
(* The functions of the library called on their own: probe holds one call, *)
(* [op, pc, a, b] with the arguments a and b as positions in the sequences *)
(* of inputs below, and after the call its result under out.               *)
(***************************************************************************)
\* the frames a client can write: texts that are JSON documents, texts that
\* are not, and binary frames, some with the bytes of a JSON document
ProbeFrames ==
    << [f |-> "Text", data |-> tA],
       [f |-> "Text", data |-> <<"1">>],
       [f |-> "Text", data |-> <<"-", "1", "2">>],
       [f |-> "Text", data |-> <<"0", "1">>],
       [f |-> "Text", data |-> <<"n", "u", "l", "l">>],
       [f |-> "Text", data |-> <<"n", "u", "l", "l", "s">>],
       [f |-> "Text", data |-> <<"t", "r", "u", "e">>],
       [f |-> "Text", data |-> <<"\"", "a", "\"">>],
       [f |-> "Text", data |-> <<"\"", "a">>],
       [f |-> "Text", data |-> <<"[", "]">>],
       [f |-> "Text", data |-> <<"[", "1", ",", " ", "[", "]", "]">>],
       [f |-> "Text", data |-> <<"[", "1">>],
       [f |-> "Text", data |-> <<"[", "1", ",", "]">>],
       [f |-> "Text", data |-> <<"{", "}">>],
       [f |-> "Text", data |-> <<"{", "\"", "a", "\"", ":", "1", "}">>],
       [f |-> "Text", data |-> <<"{", "\"", "a", "\"", "}">>],
       [f |-> "Text", data |-> <<>>],
       [f |-> "Text", data |-> <<" ", "1", " ">>],
       [f |-> "Text", data |-> <<"1", " ", "2">>],
       [f |-> "Binary", data |-> tA],
       [f |-> "Binary", data |-> <<"1">>],
       [f |-> "Binary", data |-> <<"n", "u", "l", "l">>],
       [f |-> "Binary", data |-> <<>>] >>

\* JSON values: scalars, lists and objects, empty and nested ones
JsonValues ==
    << [j |-> "Null"],
       [j |-> "Bool", v |-> TRUE],
       [j |-> "Str", v |-> tA],
       [j |-> "Str", v |-> <<>>],
       [j |-> "Int", v |-> 1],
       [j |-> "Float", v |-> 15],
       [j |-> "List", v |-> <<>>],
       [j |-> "List", v |-> <<[j |-> "Int", v |-> 1]>>],
       [j |-> "List", v |-> <<[j |-> "Int", v |-> 1], [j |-> "Str", v |-> tA]>>],
       [j |-> "List", v |-> <<[j |-> "Str", v |-> tA], [j |-> "Str", v |-> tB]>>],
       [j |-> "List", v |-> <<[j |-> "List", v |-> <<>>]>>],
       [j |-> "Object", v |-> EmptyMap],
       [j |-> "Object", v |-> tA :> [j |-> "Int", v |-> 1]],
       [j |-> "Object", v |-> tA :> [j |-> "Int", v |-> 1] @@ tB :> [j |-> "Str", v |-> tA]],
       [j |-> "Object", v |-> tA :> [j |-> "List", v |-> <<[j |-> "Null"]>>]] >>

\* the optional value at position b: None at 0
JsonArg(b) == IF b = 0 THEN None ELSE Some(JsonValues[b])

\* Json matchers: json_list!, json_object!, json_fn and the scalar matchers
JsonMatchers ==
    << [kind |-> "Null"],
       [kind |-> "Str", m |-> TEq(tA)],
       [kind |-> "Int", m |-> [kind |-> "GreaterThan", n |-> 0]],
       [kind |-> "List", m |-> <<>>],
       [kind |-> "List", m |-> <<[kind |-> "Int", m |-> [kind |-> "Eq", n |-> 1]]>>],
       [kind |-> "List", m |-> <<[kind |-> "Int", m |-> [kind |-> "Eq", n |-> 1]],
                                 [kind |-> "Str", m |-> [kind |-> "Any"]]>>],
       [kind |-> "List", m |-> <<[kind |-> "Int", m |-> [kind |-> "Eq", n |-> 2]]>>],
       [kind |-> "List", m |-> <<[kind |-> "Str", m |-> [kind |-> "Fn", f |-> "huge"]],
                                 [kind |-> "Str", m |-> [kind |-> "Fn", f |-> "huge"]]>>],
       [kind |-> "Object", m |-> EmptyMap],
       [kind |-> "Object", m |-> tA :> [kind |-> "Int", m |-> [kind |-> "GreaterThan", n |-> 0]]],
       [kind |-> "Object", m |-> tA :> [kind |-> "Int", m |-> [kind |-> "Any"]]
                                 @@ tB :> [kind |-> "Str", m |-> [kind |-> "None"]]],
       [kind |-> "Object", m |-> tB :> [kind |-> "Str", m |-> [kind |-> "None"]]],
       [kind |-> "Object", m |-> tA :> [kind |-> "Int", m |-> [kind |-> "Eq", n |-> 2]]],
       [kind |-> "Fn", f |-> "always9"],
       [kind |-> "Fn", f |-> "absent1"],
       [kind |-> "Fn", f |-> "present5"],
       [kind |-> "Str", m |-> [kind |-> "Fn", f |-> "present5"]] >>

\* scalar matchers of the five families, and the optional values they score
ScalarMatchers ==
    << [family |-> "Text", m |-> TEq(tA)],
       [family |-> "Text", m |-> [kind |-> "Regex", re |-> [lit |-> tA, start |-> TRUE, end |-> TRUE]]],
       [family |-> "Text", m |-> [kind |-> "Contains", part |-> tA]],
       [family |-> "Text", m |-> [kind |-> "Contains", part |-> <<>>]],
       [family |-> "Text", m |-> [kind |-> "NotContains", part |-> tA]],
       [family |-> "Text", m |-> [kind |-> "LenEq", len |-> 1]],
       [family |-> "Text", m |-> [kind |-> "LenGreaterThan", len |-> 0]],
       [family |-> "Text", m |-> [kind |-> "LenLessThan", len |-> 2]],
       [family |-> "Text", m |-> [kind |-> "None"]],
       [family |-> "Text", m |-> [kind |-> "Any"]],
       [family |-> "Text", m |-> [kind |-> "Fn", f |-> "absent1"]],
       [family |-> "Text", m |-> [kind |-> "Fn", f |-> "present5"]],
       [family |-> "Binary", m |-> TEq(tA)],
       [family |-> "Binary", m |-> [kind |-> "Contains", part |-> tA]],
       [family |-> "Binary", m |-> [kind |-> "Contains", part |-> <<>>]],
       [family |-> "Binary", m |-> [kind |-> "None"]],
       [family |-> "Binary", m |-> [kind |-> "Any"]],
       [family |-> "Binary", m |-> [kind |-> "Fn", f |-> "always9"]],
       [family |-> "Int", m |-> [kind |-> "Eq", n |-> 1]],
       [family |-> "Int", m |-> [kind |-> "LessThan", n |-> 1]],
       [family |-> "Int", m |-> [kind |-> "GreaterThan", n |-> 1]],
       [family |-> "Int", m |-> [kind |-> "None"]],
       [family |-> "Int", m |-> [kind |-> "Any"]],
       [family |-> "Int", m |-> [kind |-> "Fn", f |-> "present5"]],
       [family |-> "Float", m |-> [kind |-> "Eq", n |-> 15]],
       [family |-> "Float", m |-> [kind |-> "LessThan", n |-> 15]],
       [family |-> "Float", m |-> [kind |-> "GreaterThan", n |-> 15]],
       [family |-> "Float", m |-> [kind |-> "None"]],
       [family |-> "Float", m |-> [kind |-> "Any"]],
       [family |-> "Float", m |-> [kind |-> "Fn", f |-> "absent1"]],
       [family |-> "Bool", m |-> [kind |-> "Eq", b |-> TRUE]],
       [family |-> "Bool", m |-> [kind |-> "Eq", b |-> FALSE]],
       [family |-> "Bool", m |-> [kind |-> "None"]],
       [family |-> "Bool", m |-> [kind |-> "Any"]] >>

ScalarArgs ==
    << [family |-> "Text", v |-> None], [family |-> "Text", v |-> Some(<<>>)],
       [family |-> "Text", v |-> Some(tA)], [family |-> "Text", v |-> Some(tB)],
       [family |-> "Text", v |-> Some(tAB)],
       [family |-> "Binary", v |-> None], [family |-> "Binary", v |-> Some(<<>>)],
       [family |-> "Binary", v |-> Some(tA)], [family |-> "Binary", v |-> Some(tB)],
       [family |-> "Binary", v |-> Some(tAB)],
       [family |-> "Int", v |-> None], [family |-> "Int", v |-> Some(0)],
       [family |-> "Int", v |-> Some(1)], [family |-> "Int", v |-> Some(2)],
       [family |-> "Float", v |-> None], [family |-> "Float", v |-> Some(5)],
       [family |-> "Float", v |-> Some(15)], [family |-> "Float", v |-> Some(25)],
       [family |-> "Bool", v |-> None], [family |-> "Bool", v |-> Some(TRUE)],
       [family |-> "Bool", v |-> Some(FALSE)] >>

\* the score method of the family
Matcher_score(family, m, value) ==
    CASE family = "Text" -> TextMatcher_score(m, value)
      [] family = "Binary" -> BinaryMatcher_score(m, value)
      [] family = "Int" -> IntMatcher_score(m, value)
      [] family = "Float" -> FloatMatcher_score(m, value)
      [] family = "Bool" -> BoolMatcher_score(m, value)

\* stubs to materialize: no delay, fixed delays, intervals of whole and of
\* fractional milliseconds, and the instants at which they are materialized
MessageSubMilli ==
    [kind |-> "Message", headers |-> None, payload |-> None,
     delay |-> [d |-> "Interval", from |-> Duration_from_millis(1) + 1,
                to |-> Duration_from_millis(3)],
     response |-> Text(<<"r", "6">>)]

ProbeStubs ==
    <<ConnectPlain, MessageFast, MessageSlow, MessageInterval, MessageSubMilli,
      MessageEmptyRange, MessageHuge, PeriodicalTwo, PeriodicalAuth>>

ProbeInstants == <<0, 7, 12>>

\* the durations handed to with_delay_interval_in, in ticks
ProbeDurations == <<0, 1, 2, 3, 6>>

\* stubs to score: without matchers, with header and payload matchers, and
\* with Fn matchers that return large scores
ScoreStubs ==
    << ConnectPlain, ConnectAuth,
       [kind |-> "Connect",
        headers |-> Some("authorization" :> TEq(tAB)
                         @@ "dummy-header" :> [kind |-> "Contains", part |-> tA]),
        response |-> Text(<<"C">>)],
       MessageFast, MessageInterval, MessageHuge,
       [kind |-> "Message", headers |-> Some("host" :> [kind |-> "Any"]),
        payload |-> Some([t |-> "Json", m |-> JsonMatchers[6]]),
        delay |-> Fixed(0), response |-> Text(<<"r", "8">>)],
       PeriodicalTwo, PeriodicalAuth,
       [kind |-> "Connect",
        headers |-> Some("authorization" :> [kind |-> "Fn", f |-> "huge"]
                         @@ "host" :> [kind |-> "Fn", f |-> "huge"]),
        response |-> Text(<<"E">>)],
       [kind |-> "Connect", headers |-> Some("host" :> [kind |-> "Fn", f |-> "max"]),
        response |-> Text(<<"F">>)],
       [kind |-> "Message", headers |-> None,
        payload |-> Some([t |-> "Json",
                          m |-> [kind |-> "List",
                                 m |-> <<[kind |-> "Str", m |-> [kind |-> "Fn", f |-> "half"]],
                                         [kind |-> "Str", m |-> [kind |-> "Fn", f |-> "half"]]>>]]),
        delay |-> Fixed(0), response |-> Text(<<"r", "7">>)] >>

\* what a stub is scored on: the handshake headers of the session, the
\* optional body and the cursors of the calling thread
ScoreInput(req, payload, cursors) ==
    [headers |-> HandshakeHeaders(req), payload |-> payload, invocations |-> cursors]

ScoreInputs ==
    << ScoreInput(RequestPlain, None, EmptyMap),
       ScoreInput(RequestAuth, None, EmptyMap),
       ScoreInput("Host" :> <<"h">> @@ "Authorization" :> tAB @@ "Dummy-Header" :> tA,
                  None, EmptyMap),
       ScoreInput(RequestPlain, Some(Text(tA)), EmptyMap),
       ScoreInput(RequestAuth, Some(Text(tA)), EmptyMap),
       ScoreInput(RequestPlain, Some(Text(tB)), EmptyMap),
       ScoreInput(RequestPlain, Some([t |-> "Binary", v |-> tA]), EmptyMap),
       ScoreInput(RequestPlain, Some([t |-> "Json", v |-> JsonValues[9]]), EmptyMap),
       ScoreInput(RequestAuth, Some([t |-> "Json", v |-> JsonValues[10]]), EmptyMap),
       ScoreInput(RequestAuth, None, "p1" :> 1),
       ScoreInput(RequestPlain, None, "p1" :> 2 @@ "p3" :> 2) >>

\* payload matchers of the three kinds: with_text_like, with_json_body_like
\* and binary matchers, among them matchers that match every value of their
\* kind and matchers for an absent value
BodyMatchers ==
    << [t |-> "PlainText", m |-> [kind |-> "Any"]],
       [t |-> "PlainText", m |-> [kind |-> "None"]],
       [t |-> "PlainText", m |-> TEq(<<"1">>)],
       [t |-> "PlainText", m |-> [kind |-> "Fn", f |-> "always9"]],
       [t |-> "PlainText", m |-> [kind |-> "Fn", f |-> "absent1"]],
       [t |-> "Binary", m |-> [kind |-> "Any"]],
       [t |-> "Binary", m |-> [kind |-> "None"]],
       [t |-> "Binary", m |-> [kind |-> "Fn", f |-> "always9"]],
       [t |-> "Json", m |-> [kind |-> "Null"]],
       [t |-> "Json", m |-> [kind |-> "Str", m |-> [kind |-> "Any"]]],
       [t |-> "Json", m |-> [kind |-> "Str", m |-> [kind |-> "Fn", f |-> "always9"]]],
       [t |-> "Json", m |-> [kind |-> "Int", m |-> [kind |-> "Any"]]],
       [t |-> "Json", m |-> [kind |-> "Float", m |-> [kind |-> "Any"]]],
       [t |-> "Json", m |-> [kind |-> "Bool", m |-> [kind |-> "Any"]]],
       [t |-> "Json", m |-> [kind |-> "List", m |-> <<[kind |-> "Int", m |-> [kind |-> "Any"]]>>]],
       [t |-> "Json", m |-> [kind |-> "Object",
                             m |-> tA :> [kind |-> "Int", m |-> [kind |-> "Any"]]]] >>

\* A StubsHandle with its three RwLock<Vec<Stub>>: [poisoned, data] each.
\* No operation of the library poisons a lock (the only write section is
\* the push of register, and Stub::message runs under the read guard, whose
\* panic does not poison): a poisoned lock is an input, as a writer that
\* panicked inside the crate would leave it.
RwLock(poisoned, data) == [poisoned |-> poisoned, data |-> data]

ProbeHandles ==
    << [on_connect |-> RwLock(FALSE, <<ConnectPlain>>),
        on_message |-> RwLock(FALSE, <<MessageInterval>>),
        on_periodical |-> RwLock(FALSE, <<PeriodicalTwo>>)],
       [on_connect |-> RwLock(TRUE, <<ConnectPlain>>),
        on_message |-> RwLock(FALSE, <<MessageInterval>>),
        on_periodical |-> RwLock(FALSE, <<PeriodicalTwo>>)],
       [on_connect |-> RwLock(FALSE, <<ConnectPlain>>),
        on_message |-> RwLock(TRUE, <<MessageInterval>>),
        on_periodical |-> RwLock(TRUE, <<PeriodicalTwo>>)],
       [on_connect |-> RwLock(TRUE, <<>>),
        on_message |-> RwLock(TRUE, <<>>),
        on_periodical |-> RwLock(TRUE, <<>>)] >>

\* the field of the StubsHandle a kind of stub lives in
StubsField(kind) ==
    CASE kind = "Connect" -> "on_connect"
      [] kind = "Message" -> "on_message"
      [] kind = "Periodical" -> "on_periodical"

\* register: if let Ok(mut stubs) = lock.write() { stubs.push(stub) }
StubsHandle_register(handle, stub) ==
    IF handle[StubsField(stub.kind)].poisoned THEN handle
    ELSE [handle EXCEPT ![StubsField(stub.kind)].data = Append(@, stub)]

\* get_message that recovers the vector of a poisoned lock (into_inner)
StubsHandle_get_message_IgnoresPoison(lock, payload, headers, counters) ==
    SelectedStub(lock.data, payload, headers, counters)

\* get_message: if let Ok(stubs) = lock.read() { scan } else { None }; the
\* position of the stub materialized, 0 for None
StubsHandle_get_message(lock, payload, headers, counters) ==
    IF lock.poisoned THEN 0 ELSE SelectedStub(lock.data, payload, headers, counters)

ProbeKinds == <<"Connect", "Message", "Periodical">>

ProbeCall(op, a, b) == [op |-> op, pc |-> "call", a |-> a, b |-> b]

ProbeReturn(out) ==
    probe' = [op |-> probe.op, pc |-> "ret", a |-> probe.a, b |-> probe.b, out |-> out]

Probing(op) == probe.op = op /\ probe.pc = "call"

Returned(op) == probe.op = op /\ probe.pc = "ret"

NoServerStep ==
    UNCHANGED <<on_connect, on_message, on_periodical, invocations, clock, events,
                sess, api, lookup, server>>

\* Server::run decodes the frame websocket.read() returned
Probe_Frame_to_body ==
    /\ Probing("Frame_to_body")
    /\ ProbeReturn(Frame_to_body(ProbeFrames[probe.a]))
    /\ NoServerStep

\* JsonMatcher::score of matcher a on the optional value b
Probe_JsonMatcher_score ==
    /\ Probing("JsonMatcher_score")
    /\ ProbeReturn(JsonMatcher_score(JsonMatchers[probe.a], JsonArg(probe.b)))
    /\ NoServerStep

\* the score method of scalar matcher a on the optional value b
Probe_Matcher_score ==
    /\ Probing("Matcher_score")
    /\ LET sm == ScalarMatchers[probe.a]
           value == ScalarArgs[probe.b].v
       IN IF sm.family = "Binary" /\ BinaryMatcher_score_panics(sm.m, value)
          THEN probe' = [probe EXCEPT !.pc = "panicked"]
          ELSE ProbeReturn(Matcher_score(sm.family, sm.m, value))
    /\ NoServerStep

\* Stub::message of stub a at the instant b, with the delay the random
\* generator draws; an empty range panics
Probe_Stub_message ==
    /\ Probing("Stub_message")
    /\ LET stub == ProbeStubs[probe.a]
           now == ProbeInstants[probe.b]
       IN IF DelayChoices(stub) = {} \/ Stub_message_panics(stub, EmptyMap)
          THEN probe' = [probe EXCEPT !.pc = "panicked"]
          ELSE \E dur \in DelayChoices(stub) :
                  ProbeReturn(Stub_message(stub, EmptyMap, now, dur))
    /\ NoServerStep

\* on_message().with_delay_interval_in(a, b).returning_text(..), and the
\* same without the delay call (a = 0)
Probe_OnMessageBuilder ==
    /\ Probing("OnMessageBuilder")
    /\ ProbeReturn(OnMessageBuilder_build(
          IF probe.a = 0 THEN OnMessageBuilder_default
          ELSE OnMessageBuilder_with_delay_interval_in(
                   OnMessageBuilder_default, ProbeDurations[probe.a], ProbeDurations[probe.b]),
          Text(<<"o", "k">>)))
    /\ NoServerStep

\* on_periodical().with_delay_interval_in(a, b).returning_text(..).build(),
\* and the same without the delay call (a = 0)
Probe_OnPeriodicalBuilder ==
    /\ Probing("OnPeriodicalBuilder")
    /\ ProbeReturn(OnPeriodicalBuilder_build(
          OnPeriodicalBuilder_returning_text(
              IF probe.a = 0 THEN OnPeriodicalBuilder_default
              ELSE OnPeriodicalBuilder_with_delay_interval_in(
                       OnPeriodicalBuilder_default, ProbeDurations[probe.a],
                       ProbeDurations[probe.b]),
              <<"o", "k">>),
          "r1"))
    /\ NoServerStep

\* Stub::score of stub a on the input b; where an addition overflows, the
\* panic of a build with overflow checks or the wrapped sum of one without
Probe_Stub_score ==
    /\ Probing("Stub_score")
    /\ LET stub == ScoreStubs[probe.a]
           in == ScoreInputs[probe.b]
       IN \/ ProbeReturn(Stub_score(stub, in.payload, in.headers, in.invocations))
          \/ /\ Stub_score_overflows(stub, in.payload, in.headers)
             /\ probe' = [probe EXCEPT !.pc = "panicked"]
    /\ NoServerStep

\* BodyMatcher::score of payload matcher a on the body decoded from frame b,
\* on no body for b = 0
Probe_BodyMatcher_score ==
    /\ Probing("BodyMatcher_score")
    /\ ProbeReturn(BodyMatcher_score(
          BodyMatchers[probe.a],
          IF probe.b = 0 THEN None ELSE Some(Frame_to_body(ProbeFrames[probe.b]))))
    /\ NoServerStep

\* the messages a session has queued when it flushes: n messages, the i-th
\* pushed carrying the i-th response, available at instant 1 or 2 by the
\* i-th bit of mask
MaxQueued == MaxEvents

QueuedRun(n, mask) ==
    [i \in 1..n |->
        [msg |-> Text(<<"r", Digits[i + 1]>>),
         at |-> 1 + ((mask \div (2 ^ (i - 1))) % 2),
         g |-> [n |-> i]]]

RECURSIVE PushAll(_, _)
PushAll(data, items) ==
    IF items = <<>> THEN data
    ELSE PushAll(Heap_push(data, Head(items)), Tail(items))

\* while let Some(..) = messages.peek() { messages.pop() ... } with every
\* message due: the messages in the order they are popped
RECURSIVE PopAll(_)
PopAll(data) ==
    IF data = <<>> THEN <<>>
    ELSE <<Unwrap(Heap_peek(data))>> \o PopAll(Heap_pop(data))

\* a messages.push of each message of QueuedRun(a, b) in turn on an empty
\* BinaryHeap, then the flush with all of them due
Probe_BinaryHeap ==
    /\ Probing("BinaryHeap")
    /\ ProbeReturn(PopAll(PushAll(<<>>, QueuedRun(probe.a, probe.b))))
    /\ NoServerStep

\* register(stub a) on the StubsHandle b: the StubsHandle after the call
Probe_register ==
    /\ Probing("register")
    /\ ProbeReturn(StubsHandle_register(ProbeHandles[probe.b], ProbeStubs[probe.a]))
    /\ NoServerStep

\* on_connect, on_message (with the text frame "a") or the first lookup of
\* on_periodical, by kind a, on the StubsHandle b
Probe_get_message ==
    /\ Probing("get_message")
    /\ ProbeReturn(
          [chosen |-> StubsHandle_get_message(
                          ProbeHandles[probe.b][StubsField(ProbeKinds[probe.a])],
                          IF ProbeKinds[probe.a] = "Message"
                          THEN Some(Frame_to_body([f |-> "Text", data |-> tA])) ELSE None,
                          HandshakeHeaders(RequestPlain), EmptyMap)])
    /\ NoServerStep

\* on_message().with_json_body_eq(v).returning_text("ok") registered alone,
\* and on_message called with the body Json(v): the score of the stub and
\* the stub get_message selects (0 for none)
Probe_with_json_body_eq ==
    /\ Probing("with_json_body_eq")
    /\ LET v == JsonValues[probe.a]
           stub == OnMessageBuilder_build(
                       OnMessageBuilder_with_json_body_eq(OnMessageBuilder_default, v),
                       Text(<<"o", "k">>))
           payload == Some([t |-> "Json", v |-> v])
       IN ProbeReturn([score |-> Stub_score(stub, payload, EmptyMap, EmptyMap),
                       chosen |-> SelectedStub(<<stub>>, payload, EmptyMap, EmptyMap)])
    /\ NoServerStep

ProbeCalls ==
    {ProbeCall("Frame_to_body", a, 0) : a \in 1..Len(ProbeFrames)}
    \cup {ProbeCall("JsonMatcher_score", a, b) :
              a \in 1..Len(JsonMatchers), b \in 0..Len(JsonValues)}
    \cup {ProbeCall("with_json_body_eq", a, 0) : a \in 1..Len(JsonValues)}
    \cup {ProbeCall(op, a, b) :
              op \in {"OnMessageBuilder", "OnPeriodicalBuilder"},
              a \in 1..Len(ProbeDurations), b \in 1..Len(ProbeDurations)}
    \cup {ProbeCall(op, 0, 0) : op \in {"OnMessageBuilder", "OnPeriodicalBuilder"}}
    \cup {ProbeCall("Stub_score", a, b) :
              a \in 1..Len(ScoreStubs), b \in 1..Len(ScoreInputs)}
    \cup {ProbeCall("BodyMatcher_score", a, b) :
              a \in 1..Len(BodyMatchers), b \in 0..Len(ProbeFrames)}
    \cup UNION {{ProbeCall("BinaryHeap", a, b) : b \in 0..((2 ^ a) - 1)} :
                  a \in 1..MaxQueued}
    \cup {ProbeCall("register", a, b) :
              a \in 1..Len(ProbeStubs), b \in 1..Len(ProbeHandles)}
    \cup {ProbeCall("get_message", a, b) :
              a \in 1..Len(ProbeKinds), b \in 1..Len(ProbeHandles)}
    \cup {ProbeCall("Stub_message", a, b) :
              a \in 1..Len(ProbeStubs), b \in 1..Len(ProbeInstants)}
    \cup {ProbeCall("Matcher_score", c[1], c[2]) :
              c \in {x \in (1..Len(ScalarMatchers)) \X (1..Len(ScalarArgs)) :
                        ScalarArgs[x[2]].family = ScalarMatchers[x[1]].family}}

InitProbe == Init0 /\ probe \in ProbeCalls

NextProbe ==
    \/ Probe_Frame_to_body
    \/ Probe_JsonMatcher_score
    \/ Probe_with_json_body_eq
    \/ Probe_Matcher_score
    \/ Probe_Stub_message
    \/ Probe_OnMessageBuilder
    \/ Probe_OnPeriodicalBuilder
    \/ Probe_register
    \/ Probe_get_message
    \/ Probe_Stub_score
    \/ Probe_BodyMatcher_score
    \/ Probe_BinaryHeap

SpecProbe == InitProbe /\ [][NextProbe]_vars

(***************************************************************************)
(* Properties of the lookup.                                               *)
(***************************************************************************)
\* the stubs the last lookup scanned: the registry only grows, so they are
\* the first n stubs of the sequence of its kind
LookupStubs(l) ==
    SubSeq(CASE l.kind = "Connect" -> on_connect
             [] l.kind = "Message" -> on_message
             [] l.kind = "Periodical" -> on_periodical, 1, l.n)

LookupScore(l, i) == Stub_score(LookupStubs(l)[i], l.payload, l.headers, l.inv)

\* C1: a lookup (on_connect, on_message, one step of on_periodical)
\* materializes the stub whose score is the maximum over the sequence, the
\* first registered of those that share the maximum; when no stub scores
\* above 0 it materializes nothing.
C1_FirstBestStubIsMaterialized ==
    IsSome(lookup) =>
        LET l == Unwrap(lookup) IN
        IF \A i \in 1..l.n : LookupScore(l, i) = 0
        THEN l.chosen = 0 /\ l.out = None
        ELSE /\ l.chosen \in 1..l.n
             /\ \A i \in 1..l.n : LookupScore(l, i) <= LookupScore(l, l.chosen)
             /\ \A i \in 1..(l.chosen - 1) : LookupScore(l, i) < LookupScore(l, l.chosen)
             /\ IsSome(l.out)
             /\ Unwrap(l.out).msg =
                    Body_to_message(Stub_response(LookupStubs(l)[l.chosen], l.inv))

\* a lookup in which two stubs share the maximum and the first was chosen
C1_Witness ==
    /\ IsSome(lookup)
    /\ LET l == Unwrap(lookup) IN
       \E i, j \in 1..l.n :
          /\ i < j
          /\ l.chosen = i
          /\ LookupScore(l, i) = LookupScore(l, j)
          /\ LookupScore(l, i) > 1

\* some configured header matcher, or the configured payload matcher of a
\* Message stub, scores 0 on the input
ConfiguredMatcherFails(stub, payload, headers) ==
    \/ /\ IsSome(stub.headers)
       /\ \E k \in DOMAIN Unwrap(stub.headers) :
             TextMatcher_score(Unwrap(stub.headers)[k], Get(headers, k)) = 0
    \/ /\ stub.kind = "Message"
       /\ IsSome(stub.payload)
       /\ BodyMatcher_score(Unwrap(stub.payload), payload) = 0

\* C2: a stub one of whose configured header matchers scores 0 on the
\* session's value for its key, or (Message) whose configured payload
\* matcher scores 0 on the payload, scores 0 and is not selected.
C2_FailedMatcherScoresZero ==
    IsSome(lookup) =>
        LET l == Unwrap(lookup) IN
        \A i \in 1..l.n :
            ConfiguredMatcherFails(LookupStubs(l)[i], l.payload, l.headers) =>
                LookupScore(l, i) = 0 /\ l.chosen # i

\* a lookup that passed over a stub with a failed matcher and chose another
C2_Witness ==
    /\ IsSome(lookup)
    /\ LET l == Unwrap(lookup) IN
       /\ l.chosen # 0
       /\ \E i \in 1..l.n :
             /\ ConfiguredMatcherFails(LookupStubs(l)[i], l.payload, l.headers)
             /\ IsSome(LookupStubs(l)[i].headers)
             /\ Cardinality(DOMAIN Unwrap(LookupStubs(l)[i].headers)) > 1

(***************************************************************************)
(* Properties of the session loop.                                         *)
(***************************************************************************)
\* C3: within one session the available_at of the messages sent on the
\* socket, in the order they were sent, never decreases.
C3_SentInAvailableAtOrder ==
    \A s \in AllSessions :
        \A i \in 1..(Len(sess[s].sent) - 1) :
            sess[s].sent[i].at <= sess[s].sent[i + 1].at

\* two messages that were queued together and sent in the order of their
\* available_at, the later-due one made no later than the other
C3_Witness ==
    \E s \in AllSessions :
        \E i, j \in 1..Len(sess[s].sent) :
            /\ i < j
            /\ sess[s].sent[i].at < sess[s].sent[j].at
            /\ sess[s].sent[j].g.made <= sess[s].sent[i].g.made
            /\ sess[s].sent[j].g.made < sess[s].sent[i].sent_at

\* C4: no message is sent before its available_at, and the reply of a
\* Message stub with delay d is sent no earlier than d after the frame was
\* processed.
C4_ReplyNotBeforeDelay ==
    \A s \in AllSessions :
        \A i \in 1..Len(sess[s].sent) :
            LET m == sess[s].sent[i] IN
            /\ m.sent_at >= m.at
            /\ m.g.kind = "Message" => m.sent_at >= m.g.made + m.g.dur

\* the session `s` has just started: nothing read, nothing sent yet
JustStarted(s) ==
    /\ sess[s].pc = "top"
    /\ sess[s].last_read = "none"
    /\ sess[s].sent = <<>>

\* the messages of the queue, as a set
Queued(s) == {sess[s].messages[i].msg : i \in 1..Len(sess[s].messages)}

\* the Periodical stubs registered when the session `s` started
PeriodicalAtStart(s) == SubSeq(on_periodical, 1, sess[s].start.on_periodical)

\* C5: with one matching Periodical stub r1..rk, each of two sessions is sent
\* r1..rk once and in that order: once both sessions wait in a read with
\* nothing left queued, each has been sent exactly the stub's responses.
C5_EverySessionReceivesSequence ==
    (/\ on_periodical = <<PeriodicalTwo>>
     /\ \A s \in AllSessions :
           /\ sess[s].pc = "read"
           /\ sess[s].messages = <<>>
           /\ sess[s].start.on_periodical = 1)
    => \A s \in AllSessions :
          SelectSeq([i \in 1..Len(sess[s].sent) |-> sess[s].sent[i].msg],
                    LAMBDA m : m \in {Body_to_message(PeriodicalTwo.responses[k]) :
                                          k \in 1..Len(PeriodicalTwo.responses)})
          = [k \in 1..Len(PeriodicalTwo.responses) |->
                Body_to_message(PeriodicalTwo.responses[k])]

\* C6: when a session starts, its queue holds the Msg of the best Connect
\* stub, if one scores above 0, and every Msg on_periodical(headers)
\* produces from the Periodical stubs registered by then.
C6_QueueAtSessionStart ==
    \A s \in Sessions :
        JustStarted(s) =>
            /\ LET stubs == SubSeq(on_connect, 1, sess[s].start.on_connect)
                   idx == SelectedStub(stubs, None, sess[s].headers, EmptyMap)
               IN idx # 0 => Body_to_message(stubs[idx].response) \in Queued(s)
            /\ LET out == OnPeriodical(PeriodicalAtStart(s), sess[s].headers, EmptyMap)
               IN \A k \in 1..Len(out) : out[k] \in Queued(s)

\* C7: when a session starts a blocking read, no queued message has an
\* available_at at or before the `now` of that loop iteration.
C7_NothingDueAtRead ==
    \A s \in AllSessions :
        sess[s].pc = "read" =>
            \A i \in 1..Len(sess[s].messages) : sess[s].messages[i].at > sess[s].now

\* a read that starts after a flush sent something and left a message queued
C7_Witness ==
    \E s \in AllSessions :
        /\ sess[s].pc = "read"
        /\ sess[s].messages # <<>>
        /\ sess[s].sent # <<>>
        /\ sess[s].sent[Len(sess[s].sent)].sent_at = sess[s].read_at
        /\ sess[s].sent[Len(sess[s].sent)].g.made < sess[s].read_at

\* C8: at every read the timeout in effect is 1 second when the queue is
\* empty at that moment, and otherwise head.available_at - now.
C8_ReadTimeoutInEffect ==
    \A s \in AllSessions :
        sess[s].pc = "read" =>
            sess[s].read_timeout =
                IF sess[s].messages = <<>>
                THEN Some(Duration_from_millis(READ_TIMEOUT_MS))
                ELSE Some(Unwrap(Heap_peek(sess[s].messages)).at - sess[s].now)

\* C9: a read that fails with something other than a timeout ends the
\* session: it is not retried.
C9_ReadFailureEndsSession ==
    \A s \in AllSessions :
        sess[s].last_read \in {"io_failure", "closed"} => sess[s].pc = "done"

\* C10: a failed send ends the session: no send is attempted after it and
\* the failed message is not in the queue again.
C10_FailedSendEndsSession ==
    \A s \in AllSessions :
        \A i \in 1..Len(sess[s].sent) :
            ~sess[s].sent[i].ok =>
                /\ sess[s].pc = "done"
                /\ i = Len(sess[s].sent)
                /\ \A j \in 1..Len(sess[s].messages) :
                      sess[s].messages[j].g # sess[s].sent[i].g

(***************************************************************************)
(* Properties of the server's life.                                        *)
(***************************************************************************)
\* C11: once every ServerHandle is dropped, the listener is eventually
\* closed: the thread of Server::run no longer accepts connections.
C11_ListenerClosesAfterDrop ==
    (server.handles = 0) ~> (server.listener # "listening")

\* C12: nothing but a shutdown ends the listener thread: not an accept
\* error, not a failed handshake, not the failure of a session, not the
\* evaluation of the stubs for a new connection.
C12_ListenerSurvivesFailures ==
    server.listener # "panicked"

(***************************************************************************)
(* Properties of the registry.                                             *)
(***************************************************************************)
\* the sequence `new` keeps every entry of `old` at its index
Extends(old, new) ==
    /\ Len(old) <= Len(new)
    /\ \A i \in 1..Len(old) : new[i] = old[i]

\* C13: each of on_connect, on_message and on_periodical is append-only:
\* every step, a register call or a lookup, leaves each sequence an
\* extension of its value before the step.
C13_RegistryAppendOnly ==
    [][/\ Extends(on_connect, on_connect')
       /\ Extends(on_message, on_message')
       /\ Extends(on_periodical, on_periodical')]_vars

\* a register call has appended to a sequence that a lookup had already
\* scanned when it was shorter
C13_Witness ==
    /\ IsSome(lookup)
    /\ Unwrap(lookup).n >= 1
    /\ Unwrap(lookup).chosen # 0
    /\ Unwrap(lookup).n < Len(CASE Unwrap(lookup).kind = "Connect" -> on_connect
                               [] Unwrap(lookup).kind = "Message" -> on_message
                               [] Unwrap(lookup).kind = "Periodical" -> on_periodical)

\* C14: every stub registered before the handshake of a connection took
\* part in the selections of the session's start: the queued Connect message
\* comes from a stub no registered Connect stub outscores, and a registered
\* Periodical stub that matches the headers has its responses queued.
C14_EarlierStubsTakePart ==
    \A s \in Sessions :
        JustStarted(s) =>
            /\ \A i \in 1..sess[s].start.on_connect :
                  Stub_score(on_connect[i], None, sess[s].headers, EmptyMap) > 0 =>
                      \E j \in 1..sess[s].start.on_connect :
                          /\ Body_to_message(on_connect[j].response) \in Queued(s)
                          /\ Stub_score(on_connect[j], None, sess[s].headers, EmptyMap)
                                >= Stub_score(on_connect[i], None, sess[s].headers, EmptyMap)
            /\ \A i \in 1..sess[s].start.on_periodical :
                  Stub_score(on_periodical[i], None, sess[s].headers, EmptyMap) > 0 =>
                      \A k \in 1..Len(on_periodical[i].responses) :
                          Body_to_message(on_periodical[i].responses[k]) \in Queued(s)

\* the Connect and Periodical messages a session has queued or sent
StartMessages(r) ==
    Cardinality({i \in 1..Len(r.messages) : r.messages[i].g.kind \in {"Connect", "Periodical"}})
    + Cardinality({i \in 1..Len(r.sent) : r.sent[i].g.kind \in {"Connect", "Periodical"}})

\* the step of `s` is a read that returned a text or binary frame
ReadsData(s) ==
    /\ sess[s].pc = "read"
    /\ sess'[s].pc # "read"
    /\ sess'[s].last_read = "data"
    /\ sess[s].inbox # <<>>
    /\ sess'[s].inbox = Tail(sess[s].inbox)

\* the score of the i-th Message stub on the frame `s` is about to read
ScoreOnHead(s, i) ==
    Stub_score(on_message[i], Some(Frame_to_body(Head(sess[s].inbox))),
               sess[s].headers, invocations[s])

\* C15: no step of an open session adds a Connect or Periodical message to
\* it, whatever was registered since its start; and every on_message lookup
\* of the session considers every Message stub registered by then: the reply
\* it queues comes from a stub that none of them outscores.
C15_LateRegistration ==
    [][\A s \in Sessions :
          /\ SessionOpen(s) => StartMessages(sess'[s]) <= StartMessages(sess[s])
          /\ ReadsData(s) =>
                \A i \in 1..Len(on_message) :
                    ScoreOnHead(s, i) > 0 =>
                        \/ sess'[s].pc = "panicked"
                        \/ \E j \in 1..Len(on_message) :
                              /\ ScoreOnHead(s, j) >= ScoreOnHead(s, i)
                              /\ Len(sess'[s].messages) = Len(sess[s].messages) + 1
                              /\ \E k \in 1..Len(sess'[s].messages) :
                                    /\ sess'[s].messages[k].msg
                                          = Body_to_message(on_message[j].response)
                                    /\ sess'[s].messages[k].g.made = clock]_vars

\* a session that was sent the reply of a Message stub registered after its
\* start, with a Connect stub registered after its start and not applied
C15_Witness ==
    \E s \in Sessions :
        /\ \E i \in 1..Len(sess[s].sent) : sess[s].sent[i].g.kind = "Message"
        /\ Len(on_connect) > sess[s].start.on_connect
        /\ StartMessages(sess[s]) = 0
        /\ \E c \in 1..Len(on_connect) :
              Stub_score(on_connect[c], None, sess[s].headers, EmptyMap) > 0

(***************************************************************************)
(* Properties of the Periodical stubs.                                     *)
(***************************************************************************)
\* the cursor of thread `t` for the id `id`
Cursor(t, id) == IF id \in DOMAIN invocations[t] THEN invocations[t][id] ELSE 0

C17_PeriodicalSeparatedByDelay ==
    \A t \in ApiThreads :
        \A p \in 1..Len(on_periodical) :
            \A k \in 1..(Len(on_periodical[p].responses) - 1) :
                \A a, b \in 1..Len(api[t].out) :
                    (/\ a < b
                     /\ api[t].out[a].msg = Body_to_message(on_periodical[p].responses[k])
                     /\ api[t].out[b].msg = Body_to_message(on_periodical[p].responses[k + 1])
                     /\ api[t].out[a].g.delay = on_periodical[p].delay
                     /\ api[t].out[b].g.delay = on_periodical[p].delay)
                    => api[t].out[b].at >= api[t].out[a].at + api[t].out[a].g.dur

(***************************************************************************)
(* Properties of the ranking.                                              *)
(***************************************************************************)
\* C18: when the stub registered last scores strictly higher on the input
\* than every stub of its kind registered before it, the lookup selects it
\* although it is last in insertion order.
C18_StricterLaterStubSelected ==
    IsSome(lookup) =>
        LET l == Unwrap(lookup) IN
        (/\ l.n >= 1
         /\ LookupScore(l, l.n) > 0
         /\ \A i \in 1..(l.n - 1) : LookupScore(l, l.n) > LookupScore(l, i))
        => /\ l.chosen = l.n
           /\ IsSome(l.out)
           /\ Unwrap(l.out).msg = Body_to_message(Stub_response(LookupStubs(l)[l.n], l.inv))

\* the stub registered last was selected over an earlier stub that matches
C18_Witness ==
    /\ IsSome(lookup)
    /\ LET l == Unwrap(lookup) IN
       /\ l.n >= 2
       /\ l.chosen = l.n
       /\ \E i \in 1..(l.n - 1) : LookupScore(l, i) > 0

\* the number of matchers a stub configures
Criteria(stub) ==
    (IF IsSome(stub.headers) THEN Cardinality(DOMAIN Unwrap(stub.headers)) ELSE 0)
    + (IF stub.kind = "Message" /\ IsSome(stub.payload) THEN 1 ELSE 0)

\* the header matchers of a stub, as a set of <<key, matcher>>
HeaderCriteria(stub) ==
    IF IsSome(stub.headers)
    THEN {<<k, Unwrap(stub.headers)[k]>> : k \in DOMAIN Unwrap(stub.headers)}
    ELSE {}

\* `more` configures every matcher of `less` and at least one besides
AddsCriteria(more, less) ==
    /\ more.kind = less.kind
    /\ Criteria(more) > Criteria(less)
    /\ \A c \in HeaderCriteria(less) :
          /\ IsSome(more.headers)
          /\ c[1] \in DOMAIN Unwrap(more.headers)
          /\ Unwrap(more.headers)[c[1]] = c[2]
    /\ (less.kind = "Message" /\ IsSome(less.payload)) => more.payload = less.payload

RegisteredResponses ==
    {Body_to_message(on_connect[i].response) : i \in 1..Len(on_connect)}
    \cup {Body_to_message(on_message[i].response) : i \in 1..Len(on_message)}
    \cup UNION {{Body_to_message(on_periodical[i].responses[k]) :
                    k \in 1..Len(on_periodical[i].responses)} : i \in 1..Len(on_periodical)}

\* C20: when no stub of the kind scores above 0 on the event (or none is
\* registered) nothing is queued and nothing is sent for it: a data frame
\* leaves the queue as it was, a connection starts with an empty queue, and
\* whatever a session sends is the response of a registered stub.
C20_NoMatchNothingQueuedOrSent ==
    [][\A s \in Sessions :
          /\ (/\ ReadsData(s)
              /\ \A i \in 1..Len(on_message) : ScoreOnHead(s, i) = 0)
             => /\ sess'[s].messages = sess[s].messages
                /\ sess'[s].sent = sess[s].sent
                /\ sess'[s].pc = "top"
          /\ (/\ sess[s].pc = "closed"
              /\ sess'[s].pc = "top"
              /\ \A i \in 1..Len(on_connect) :
                    Stub_score(on_connect[i], None, sess'[s].headers, EmptyMap) = 0)
             => sess'[s].messages = <<>>
          /\ \A i \in 1..Len(sess'[s].sent) : sess'[s].sent[i].msg \in RegisteredResponses]_vars

\* a session that started against Connect stubs none of which matched, has
\* read a data frame with Message stubs registered, and has neither queued
\* nor sent anything
C20_Witness ==
    \E s \in Sessions :
        /\ sess[s].pc = "top"
        /\ sess[s].last_read = "data"
        /\ sess[s].start.on_connect >= 1
        /\ on_message # <<>>
        /\ sess[s].messages = <<>>
        /\ sess[s].sent = <<>>

(***************************************************************************)
(* Properties of the payload and of the matchers.                          *)
(***************************************************************************)
\* the texts of ProbeFrames that are JSON documents (RFC 8259)
JsonTexts ==
    { <<"1">>, <<"-", "1", "2">>, <<"n", "u", "l", "l">>, <<"t", "r", "u", "e">>,
      <<"\"", "a", "\"">>, <<"[", "]">>, <<"[", "1", ",", " ", "[", "]", "]">>,
      <<"{", "}">>, <<"{", "\"", "a", "\"", ":", "1", "}">>, <<" ", "1", " ">> }

\* C21: a text frame becomes Body::Json if and only if its text is a JSON
\* document, otherwise Body::PlainText with the text; a binary frame always
\* becomes Body::Binary with its bytes.
C21_TextIsJsonIffItParses ==
    Returned("Frame_to_body") =>
        LET frame == ProbeFrames[probe.a] IN
        /\ frame.f = "Binary" => probe.out.t = "Binary" /\ probe.out.v = frame.data
        /\ frame.f = "Text" =>
              /\ probe.out.t = "Json" <=> frame.data \in JsonTexts
              /\ probe.out.t # "Json" => probe.out.t = "PlainText" /\ probe.out.v = frame.data
              /\ frame.data = <<"[", "1", ",", " ", "[", "]", "]">> =>
                    probe.out.v = [j |-> "List",
                                   v |-> <<[j |-> "Int", v |-> 1], [j |-> "List", v |-> <<>>]>>]

\* the text frame [1, []] was decoded as a JSON list
C21_Witness ==
    /\ Returned("Frame_to_body")
    /\ ProbeFrames[probe.a] = [f |-> "Text", data |-> <<"[", "1", ",", " ", "[", "]", "]">>]
    /\ probe.out.t = "Json"

\* C22: a Message stub built with with_json_body_eq(v) scores above 0 on the
\* JSON body v and is the stub the lookup selects, for every JSON value v.
C22_JsonBodyEqIsReflexive ==
    Returned("with_json_body_eq") => probe.out.score > 0 /\ probe.out.chosen = 1

\* what a Json matcher for a scalar scores on an absent value, by the
\* matcher of its family
ScoreOnAbsent(jm) ==
    CASE jm.kind = "Str" -> TextMatcher_score(jm.m, None)
      [] jm.kind = "Int" -> IntMatcher_score(jm.m, None)
      [] jm.kind = "Float" -> FloatMatcher_score(jm.m, None)
      [] jm.kind = "Bool" -> BoolMatcher_score(jm.m, None)
      [] OTHER -> 0

\* the score of the child matcher of an Object on the optional value under
\* its key
ChildScore(jm, value) ==
    IF IsSome(value) THEN JsonMatcher_score(jm, value) ELSE ScoreOnAbsent(jm)

RECURSIVE ChildSum(_, _, _)
ChildSum(matchers, map, keys) ==
    IF keys = {} THEN 0
    ELSE LET k == CHOOSE x \in keys : TRUE
         IN ChildScore(matchers[k], Get(map, k)) + ChildSum(matchers, map, keys \ {k})

\* C23: an Object matcher on an object scores 0 if a child matcher scores 0
\* on the optional value under its key, else the sum of the child scores; a
\* child None matcher on an absent key contributes 2, and keys without a
\* matcher are ignored.
C23_ObjectScoresItsChildren ==
    (/\ Returned("JsonMatcher_score")
     /\ JsonMatchers[probe.a].kind = "Object"
     /\ probe.b # 0
     /\ JsonValues[probe.b].j = "Object")
    => LET matchers == JsonMatchers[probe.a].m
           map == JsonValues[probe.b].v
       IN probe.out = IF \E k \in DOMAIN matchers : ChildScore(matchers[k], Get(map, k)) = 0
                      THEN 0
                      ELSE ChildSum(matchers, map, DOMAIN matchers)

RECURSIVE ZipSum(_, _, _)
ZipSum(matchers, list, n) ==
    IF n = 0 THEN 0
    ELSE JsonMatcher_score(matchers[n], Some(list[n])) + ZipSum(matchers, list, n - 1)

\* C24: a List matcher on a list scores 0 if a matcher scores 0 on the value
\* at its position, else the sum of those scores, over the positions both
\* have.
C24_ListScoresZippedChildren ==
    (/\ Returned("JsonMatcher_score")
     /\ JsonMatchers[probe.a].kind = "List"
     /\ probe.b # 0
     /\ JsonValues[probe.b].j = "List")
    => LET matchers == JsonMatchers[probe.a].m
           list == JsonValues[probe.b].v
           n == Min(Len(matchers), Len(list))
       IN probe.out = IF \E i \in 1..n : JsonMatcher_score(matchers[i], Some(list[i])) = 0
                      THEN 0
                      ELSE ZipSum(matchers, list, n)

\* C25: the score of an Fn matcher, of a scalar family or built with
\* json_fn, is the value its function returns on the optional value.
C25_FnScoreIsTheFunctionsValue ==
    /\ (Returned("Matcher_score") /\ ScalarMatchers[probe.a].m.kind = "Fn")
       => probe.out = UserFn(ScalarMatchers[probe.a].m.f, ScalarArgs[probe.b].v)
    /\ (Returned("JsonMatcher_score") /\ JsonMatchers[probe.a].kind = "Fn")
       => probe.out = UserFn(JsonMatchers[probe.a].f, JsonArg(probe.b))

\* the rank of the variants of a family
Rank(family, kind) ==
    CASE kind = "None" -> 2
      [] kind = "Any" -> 1
      [] family = "Text" ->
            (CASE kind = "Eq" -> 8 [] kind = "Regex" -> 7 [] kind = "Contains" -> 6
               [] kind = "NotContains" -> 5 [] kind = "LenEq" -> 4
               [] kind \in {"LenGreaterThan", "LenLessThan"} -> 3)
      [] family = "Bool" -> 3
      [] OTHER -> IF kind = "Eq" THEN 4 ELSE 3

\* whether the predicate of the matcher holds on the optional value
Holds(m, value) ==
    CASE m.kind = "None" -> ~IsSome(value)
      [] ~IsSome(value) -> FALSE
      [] m.kind = "Any" -> TRUE
      [] m.kind = "Eq" ->
            Unwrap(value) = (IF "part" \in DOMAIN m THEN m.part
                             ELSE IF "n" \in DOMAIN m THEN m.n ELSE m.b)
      [] m.kind = "Regex" -> RegexIsMatch(m.re, Unwrap(value))
      [] m.kind = "Contains" ->
            \E i \in 0..Len(Unwrap(value)), k \in 0..Len(Unwrap(value)) :
                i + k <= Len(Unwrap(value)) /\ SubSeq(Unwrap(value), i + 1, i + k) = m.part
      [] m.kind = "NotContains" ->
            ~\E i \in 0..Len(Unwrap(value)), k \in 0..Len(Unwrap(value)) :
                i + k <= Len(Unwrap(value)) /\ SubSeq(Unwrap(value), i + 1, i + k) = m.part
      [] m.kind = "LenEq" -> Len(Unwrap(value)) = m.len
      [] m.kind = "LenGreaterThan" -> Len(Unwrap(value)) > m.len
      [] m.kind = "LenLessThan" -> Len(Unwrap(value)) < m.len
      [] m.kind = "LessThan" -> Unwrap(value) < m.n
      [] m.kind = "GreaterThan" -> Unwrap(value) > m.n

\* C26: a scalar matcher that is not Fn returns the rank of its variant when
\* its predicate holds on the optional value and 0 otherwise; None holds on
\* an absent value only and Any on a present one only.
C26_ScalarScoreIsRankOrZero ==
    (probe.op = "Matcher_score" /\ probe.pc # "call"
        /\ ScalarMatchers[probe.a].m.kind # "Fn")
    => /\ probe.pc = "ret"
       /\ probe.out = IF Holds(ScalarMatchers[probe.a].m, ScalarArgs[probe.b].v)
                      THEN Rank(ScalarMatchers[probe.a].family, ScalarMatchers[probe.a].m.kind)
                      ELSE 0

\* C27: a stub materialized at the instant now has available_at = now if it
\* is a Connect stub, now + d under Fixed(d), and now + x with lo <= x < hi
\* under Interval(lo, hi); never an instant before now.
C27_AvailableAtIsNowPlusDelay ==
    Returned("Stub_message") =>
        LET stub == ProbeStubs[probe.a]
            now == ProbeInstants[probe.b]
            at == probe.out.at
        IN /\ at >= now
           /\ stub.kind = "Connect" => at = now
           /\ (stub.kind # "Connect" /\ stub.delay.d = "Fixed") => at = now + stub.delay.dur
           /\ (stub.kind # "Connect" /\ stub.delay.d = "Interval") =>
                 \E x \in stub.delay.from..(stub.delay.to - 1) : at = now + x

\* C28: with_delay_interval_in(a, b) on the Message and on the Periodical
\* builder yields Fixed(a) when a = b and Interval(min(a, b), max(a, b))
\* otherwise; a stub built without a delay call has Fixed(0); no built stub
\* has an Interval with lo >= hi.
C28_IntervalIsNormalized ==
    (Returned("OnMessageBuilder") \/ Returned("OnPeriodicalBuilder")) =>
        LET delay == probe.out.delay IN
        /\ probe.a = 0 => delay.d = "Fixed" /\ delay.dur = 0
        /\ probe.a # 0 =>
              LET lower == ProbeDurations[probe.a]
                  upper == ProbeDurations[probe.b]
              IN IF lower = upper THEN delay.d = "Fixed" /\ delay.dur = lower
                 ELSE /\ delay.d = "Interval"
                      /\ delay.from = Min(lower, upper)
                      /\ delay.to = IF lower > upper THEN lower ELSE upper
        /\ delay.d = "Interval" => delay.from < delay.to

\* the Message builder was given the larger duration first and built an
\* Interval from the smaller to the larger
C28_Witness ==
    /\ Returned("OnMessageBuilder")
    /\ probe.a # 0
    /\ ProbeDurations[probe.a] > ProbeDurations[probe.b]
    /\ probe.out.delay.d = "Interval"
    /\ probe.out.delay.from = ProbeDurations[probe.b]

(***************************************************************************)
(* Properties of the registry.                                             *)
(***************************************************************************)
\* C29: on a poisoned registry lock a lookup returns none and register
\* leaves the StubsHandle as it was; neither of them panics.  On a lock that
\* is not poisoned the lookup finds the stub and register appends.
C29_PoisonedLockIsNoMatch ==
    /\ probe.op \in {"register", "get_message"} => probe.pc # "panicked"
    /\ Returned("get_message") =>
          LET lock == ProbeHandles[probe.b][StubsField(ProbeKinds[probe.a])] IN
          IF lock.poisoned THEN probe.out.chosen = 0 ELSE probe.out.chosen = 1
    /\ Returned("register") =>
          LET field == StubsField(ProbeStubs[probe.a].kind)
              before == ProbeHandles[probe.b]
          IN /\ \A f \in {"on_connect", "on_message", "on_periodical"} :
                   probe.out[f].poisoned = before[f].poisoned
             /\ Len(probe.out[field].data) =
                   Len(before[field].data) + (IF before[field].poisoned THEN 0 ELSE 1)
             /\ before[field].poisoned => probe.out = before

\* the lookup on a poisoned on_connect lock that holds a stub without
\* matchers returned none
C29_Witness ==
    /\ Returned("get_message")
    /\ ProbeKinds[probe.a] = "Connect"
    /\ ProbeHandles[probe.b].on_connect.poisoned
    /\ ProbeHandles[probe.b].on_connect.data = <<ConnectPlain>>
    /\ probe.out.chosen = 0

\* C30: no two registered Periodical stubs share an id, and materializing a
\* Periodical stub advances the cursor of no other registered stub.
C30_PeriodicalIdsAreUnique ==
    [][/\ \A i, j \in 1..Len(on_periodical') :
             i # j => on_periodical'[i].id # on_periodical'[j].id
       /\ \A t \in Threads :
             (invocations'[t] # invocations[t] /\ IsSome(lookup')
                  /\ Unwrap(lookup').kind = "Periodical" /\ Unwrap(lookup').chosen # 0)
             => \A j \in 1..Len(on_periodical) :
                   j # Unwrap(lookup').chosen
                   => Cursor(t, on_periodical[j].id)' = Cursor(t, on_periodical[j].id)]_vars

(***************************************************************************)
(* Properties of the score of a stub.                                      *)
(***************************************************************************)
\* the stub and the input of the call of Stub::score that ended
ScoreCallEnded == probe.op = "Stub_score" /\ probe.pc # "call"

HasPayloadMatcher(stub) == stub.kind = "Message" /\ IsSome(stub.payload)

\* the score of the payload matcher with the scores of the children of a
\* List summed exactly
PayloadExact(bm, body) ==
    IF /\ IsSome(body)
       /\ bm.t = "Json" /\ Unwrap(body).t = "Json"
       /\ bm.m.kind = "List" /\ Unwrap(body).v.j = "List"
    THEN LET matchers == bm.m.m
             list == Unwrap(body).v.v
             n == Min(Len(matchers), Len(list))
             scores == [i \in 1..n |-> JsonMatcher_score(matchers[i], Some(list[i]))]
         IN IF \E i \in 1..n : scores[i] = 0 THEN 0 ELSE SumScores(scores, 1..n)
    ELSE BodyMatcher_score(bm, body)

\* every configured matcher of the stub matches the input
AllMatchersMatch(stub, input) ==
    /\ \A k \in DOMAIN HeaderScores(stub, input.headers) :
          HeaderScores(stub, input.headers)[k] # 0
    /\ HasPayloadMatcher(stub) => PayloadExact(Unwrap(stub.payload), input.payload) # 0

\* 1 plus the scores of the header matchers plus that of the payload matcher
ExactScore(stub, input) ==
    1 + SumScores(HeaderScores(stub, input.headers),
                  DOMAIN HeaderScores(stub, input.headers))
      + (IF HasPayloadMatcher(stub)
         THEN PayloadExact(Unwrap(stub.payload), input.payload) ELSE 0)

\* C31: when every configured matcher matches, Stub::score returns 1 plus
\* the scores of the header matchers plus (Message) that of the payload
\* matcher; a stub without matchers scores 1 on every input, and a Message
\* stub without payload matcher scores the same on every payload.
C31_ScoreIsOnePlusMatcherScores ==
    ScoreCallEnded =>
       LET stub == ScoreStubs[probe.a]
           input == ScoreInputs[probe.b]
       IN /\ AllMatchersMatch(stub, input)
                => probe.pc = "ret" /\ probe.out = ExactScore(stub, input)
          /\ (~IsSome(stub.headers) /\ ~HasPayloadMatcher(stub))
                => probe.pc = "ret" /\ probe.out = 1
          /\ (stub.kind = "Message" /\ ~IsSome(stub.payload) /\ probe.pc = "ret")
                => \A b \in 1..Len(ScoreInputs) :
                      probe.out = Stub_score(stub, ScoreInputs[b].payload, input.headers,
                                             input.invocations)

\* C38: where all matchers of a stub match (and a Periodical stub has a
\* response left), the additions stay below 2^16: Stub::score returns the
\* exact sum, which is above 0, and does not panic.
C38_ScoreStaysInU16 ==
    (/\ ScoreCallEnded
     /\ AllMatchersMatch(ScoreStubs[probe.a], ScoreInputs[probe.b])
     /\ ScoreStubs[probe.a].kind = "Periodical"
           => Stub_is_message_available(ScoreStubs[probe.a],
                                        ScoreInputs[probe.b].invocations))
    => /\ probe.pc = "ret"
       /\ ExactScore(ScoreStubs[probe.a], ScoreInputs[probe.b]) < U16
       /\ probe.out > 0

(***************************************************************************)
(* Properties of on_periodical.                                            *)
(***************************************************************************)
\* the responses the Periodical stubs from position i on, whose header
\* matchers match, have left under the cursors
RECURSIVE ResponsesLeft(_, _, _, _)
ResponsesLeft(stubs, headers, cursors, i) ==
    IF i > Len(stubs) THEN 0
    ELSE (IF /\ IsSome(HeaderPart_score(stubs[i].headers, headers))
             /\ Stub_message_idx(stubs[i], cursors) < Len(stubs[i].responses)
          THEN Len(stubs[i].responses) - Stub_message_idx(stubs[i], cursors)
          ELSE 0)
         + ResponsesLeft(stubs, headers, cursors, i + 1)

\* C32: on_periodical(headers) returns, after as many materializations as
\* the matching Periodical stubs have responses left under the cursors of
\* the calling thread.
C32_OnPeriodicalEmitsResponsesLeft ==
    \A t \in ApiThreads, req \in {RequestPlain, RequestAuth} :
        api[t].pc = "idle"
        => Len(OnPeriodical(on_periodical, HandshakeHeaders(req), invocations[t]))
              = ResponsesLeft(on_periodical, HandshakeHeaders(req), invocations[t], 1)

(***************************************************************************)
(* Frame conditions of the registry.                                       *)
(***************************************************************************)
\* `new` is `old` with one stub of the kind pushed at its end
Pushed(old, new, kind) ==
    /\ Len(new) = Len(old) + 1
    /\ SubSeq(new, 1, Len(old)) = old
    /\ new[Len(new)].kind = kind

\* C33: a step that changes the registry pushes one stub on the sequence of
\* its kind and leaves the other two sequences, the cursors and the queues
\* of the sessions as they are; a step of a session or of a lookup leaves
\* the three sequences as they are.
C33_RegisterTouchesOneSequence ==
    [][/\ registry' # registry
          => /\ \/ /\ Pushed(on_connect, on_connect', "Connect")
                   /\ on_message' = on_message /\ on_periodical' = on_periodical
                \/ /\ Pushed(on_message, on_message', "Message")
                   /\ on_connect' = on_connect /\ on_periodical' = on_periodical
                \/ /\ Pushed(on_periodical, on_periodical', "Periodical")
                   /\ on_connect' = on_connect /\ on_message' = on_message
             /\ invocations' = invocations
             /\ \A s \in AllSessions : sess'[s].messages = sess[s].messages
       /\ (sess' # sess \/ lookup' # lookup \/ invocations' # invocations)
          => registry' = registry]_vars

\* a Connect stub and a Message stub were registered after the session
\* started, and the session has a message of an on_message lookup queued
C33_Witness ==
    \E s \in Sessions :
        /\ SessionOpen(s)
        /\ sess[s].start.on_connect < Len(on_connect)
        /\ Len(on_message) >= 1
        /\ Len(sess[s].messages) >= 1
        /\ sess[s].messages[1].g.kind = "Message"

(***************************************************************************)
(* Properties of the read of the session loop.                             *)
(***************************************************************************)
\* C34: a read that returns a frame that is neither text nor binary, and a
\* read that times out, push nothing (no on_message lookup is made), leave
\* the queue and the messages sent as they are, and send the loop back to
\* its top, where the due messages are flushed.
C34_SkippedReadLeavesQueue ==
    [][\A s \in Sessions :
          (/\ sess[s].pc = "read"
           /\ sess'[s].pc # "read"
           /\ sess'[s].last_read \in {"frame", "timeout"})
          => /\ sess'[s].messages = sess[s].messages
             /\ sess'[s].sent = sess[s].sent
             /\ sess'[s].pc = "top"
             /\ invocations' = invocations]_vars

\* a Ping was read while a message is queued and a Message stub without
\* matchers, which every payload matches, is registered
C34_Witness ==
    \E s \in Sessions :
        /\ sess[s].pc = "top"
        /\ sess[s].last_read = "frame"
        /\ ~sess[s].closing
        /\ Len(sess[s].messages) >= 1
        /\ \E i \in 1..Len(on_message) : on_message[i] = MessageInterval

(***************************************************************************)
(* Properties of the payload matchers.                                     *)
(***************************************************************************)
ScalarJsonKinds == {"Null", "Bool", "Str", "Float", "Int"}

\* C35: a payload matcher scores 0 on an absent body and on a body of
\* another kind than its own (a text matcher on a text frame that parses as
\* JSON, a JSON matcher on plain text or binary), and a JSON scalar matcher
\* scores 0 on a JSON value of another variant.
C35_OtherKindScoresZero ==
    /\ Returned("BodyMatcher_score")
          => /\ probe.b = 0 => probe.out = 0
             /\ (probe.b # 0 /\ ProbeFrames[probe.b].f = "Binary"
                     /\ BodyMatchers[probe.a].t # "Binary") => probe.out = 0
             /\ (probe.b # 0 /\ ProbeFrames[probe.b].f = "Text"
                     /\ BodyMatchers[probe.a].t = "Binary") => probe.out = 0
             /\ (probe.b # 0 /\ ProbeFrames[probe.b].f = "Text"
                     /\ ProbeFrames[probe.b].data \in JsonTexts
                     /\ BodyMatchers[probe.a].t # "Json") => probe.out = 0
             /\ (probe.b # 0 /\ ProbeFrames[probe.b].f = "Text"
                     /\ ProbeFrames[probe.b].data \notin JsonTexts
                     /\ BodyMatchers[probe.a].t # "PlainText") => probe.out = 0
    /\ (/\ Returned("JsonMatcher_score")
        /\ JsonMatchers[probe.a].kind \in ScalarJsonKinds
        /\ probe.b # 0
        /\ JsonValues[probe.b].j # JsonMatchers[probe.a].kind)
          => probe.out = 0

\* with_text_like(text_any()) scored 0 on the text frame "1", which is
\* decoded as JSON
C35_Witness ==
    /\ Returned("BodyMatcher_score")
    /\ BodyMatchers[probe.a] = [t |-> "PlainText", m |-> [kind |-> "Any"]]
    /\ probe.b # 0
    /\ ProbeFrames[probe.b] = [f |-> "Text", data |-> <<"1">>]
    /\ probe.out = 0

(***************************************************************************)
(* Liveness of the queue of a session.                                     *)
(***************************************************************************)
\* the messages pushed on the queue of s so far
Pushed36(s) == Len(sess[s].sent) + Len(sess[s].messages)

\* every message pushed on the queue of s is eventually sent, unless the
\* connection ends
EverySent(s) ==
    \A k \in 1..(MaxEvents + 1) :
        (Pushed36(s) >= k) ~> (Len(sess[s].sent) >= k \/ ~Connected(s))

C37_MaterializingNeverPanics ==
    (/\ probe.op = "Stub_message"
     /\ LET stub == ProbeStubs[probe.a] IN
        \/ stub.kind = "Connect"
        \/ stub.delay.d = "Fixed"
        \/ stub.delay.d = "Interval" /\ stub.delay.from < stub.delay.to)
    => probe.pc # "panicked"

(***************************************************************************)
(* Isolation of the sessions.                                              *)
(***************************************************************************)
\* the messages of the queue `new` that the queue `old` does not hold
NewMessages(old, new) ==
    {new[i] : i \in 1..Len(new)} \ {old[i] : i \in 1..Len(old)}

\* C39: a step pushes on or sends from the queue of one session only; the
\* message a session pushes after a read is the reply of the stub selected
\* for the frame it read under its own handshake headers, the message it
\* sends is the head of its own queue, and its headers do not change while
\* it is open.
C39_SessionsAreIsolated ==
    [][\A s \in AllSessions :
          /\ (sess'[s].messages # sess[s].messages \/ sess'[s].sent # sess[s].sent)
                => \A r \in AllSessions \ {s} :
                      /\ sess'[r].messages = sess[r].messages
                      /\ sess'[r].sent = sess[r].sent
          /\ (sess[s].pc = "read" /\ Len(sess'[s].messages) > Len(sess[s].messages))
                => \E idx \in {SelectedStub(on_message,
                                            Some(Frame_to_body(Head(sess[s].inbox))),
                                            sess[s].headers, invocations[s])} :
                      /\ idx # 0
                      /\ \A m \in NewMessages(sess[s].messages, sess'[s].messages) :
                            m.msg = Body_to_message(on_message[idx].response)
          /\ Len(sess'[s].sent) > Len(sess[s].sent)
                => /\ Len(sess'[s].sent) = Len(sess[s].sent) + 1
                   /\ sess'[s].sent[Len(sess'[s].sent)].msg
                         = Unwrap(Heap_peek(sess[s].messages)).msg
          /\ (sess[s].pc # "closed" /\ sess'[s].pc # "closed")
                => sess'[s].headers = sess[s].headers]_vars

\* both sessions are open and read the same frame "b": the session with
\* the Authorization header was sent the reply of the stub that asks for
\* the header, the other session only its Connect message
C39_Witness ==
    /\ SessionOpen("s1") /\ SessionOpen("s2")
    /\ sess["s1"].last_read = "data" /\ sess["s2"].last_read = "data"
    /\ sess["s1"].messages = <<>> /\ sess["s2"].messages = <<>>
    /\ Len(sess["s1"].sent) = 1
    /\ sess["s1"].sent[1].g.kind = "Connect"
    /\ \E i \in 1..Len(sess["s2"].sent) :
          sess["s2"].sent[i].msg = Body_to_message(MessageHuge.response)

(***************************************************************************)
(* The order of the flush.                                                 *)
(***************************************************************************)
\* C40: the messages of a queue come out of the flush earliest
\* available_at first, and two messages with the same available_at come
\* out in the order they were pushed.
C40_EqualAvailableAtSentInPushOrder ==
    Returned("BinaryHeap") =>
        \A i, j \in 1..Len(probe.out) :
            i < j =>
                /\ probe.out[i].at <= probe.out[j].at
                /\ probe.out[i].at = probe.out[j].at =>
                      probe.out[i].g.n < probe.out[j].g.n

====
